---------------------------- MODULE Spec2Model ----------------------------
(***************************************************************************)
(* A model of transkribus-hf: the PAGE-XML parser (parser.py), the record  *)
(* exporters (exporters.py) and the converter facade (converter.py).       *)
(*                                                                         *)
(* Text is modelled as a sequence of one-character strings, so that the    *)
(* substring, prefix, suffix and split operations of the code are computed *)
(* character by character.  Inputs are written as sequences of tokens; a   *)
(* token is a character or a word, and Str expands it to its characters.   *)
(***************************************************************************)
EXTENDS Integers, Sequences, FiniteSets, TLC

VARIABLES
    file_path,      \* _is_macos_metadata_file: the argument, as tokens
    classifier,     \* _is_macos_metadata_file: [called, result]
    points_attr,    \* _parse_coords: the Coords element, [present, points]
    coords_call,    \* _parse_coords: [called, raised, coords]
    archive,        \* the ZIP archive: its entries [name, data] in namelist() order
    zip_log,        \* who opened the archive so far ("parser" / "exporter"), in order
    pages,          \* the List[PageData] handed to an exporter's export()
    window_args,    \* the (window_size, overlap) a WindowExporter is asked for
    exporter,       \* the exporter instance: [state, window_size, overlap, counters]
    windows_call,   \* _create_windows: [called, raised, windows]
    dataset,        \* export(): [returned, raised, records, summary, calls, emitted]
    xml_doc,        \* _parse_page_xml: the arguments [xml_content, project_name]
    parsed,         \* _parse_page_xml: [called, outcome, page]
    convert_args,   \* convert(): the arguments [export_mode, window_size, overlap]
    converter,      \* the TranskribusConverter: [pages_none, pages]
    convert_call,   \* convert(): [called, outcome, error]
    handed,         \* the (text, project) pairs _parse_page_xml was called with
    image_path_call, \* _find_image_path: [called, page, found, path]
    stats_call,     \* get_stats(): [called, stats]
    cli             \* cli.main(): the parsed arguments and [called, exit_code, stage]

vars == <<file_path, classifier, points_attr, coords_call, archive, zip_log, pages,
          window_args, exporter, windows_call, dataset, xml_doc, parsed,
          convert_args, converter, convert_call, handed,
          image_path_call, stats_call, cli>>

varsClassifier == <<file_path, classifier>>
varsCoords == <<points_attr, coords_call>>
varsExporter == <<archive, zip_log, pages, window_args, exporter, windows_call, dataset>>
varsParse == <<xml_doc, parsed>>
varsConvert == <<convert_args, converter, convert_call, handed>>
varsCalls == <<image_path_call, stats_call>>
varsCli == <<cli>>

(***************************************************************************)
(* Bounds of the model.                                                    *)
(***************************************************************************)
MaxPathTokens == 5
MaxPointsLen == 5
MaxLines == 5           \* lines in a region
MaxWindowSize == 3      \* largest window_size / overlap asked for
MaxNegative == 2        \* the parameters range from -MaxNegative
MaxRegions == 3         \* TextRegion elements in a document
MaxRefs == 2            \* RegionRefIndexed elements in a document
MaxDocLines == 3        \* TextLine elements in a region of a document
MaxTextRegions == 3     \* regions of a page whose texts vary
MaxParses == 2          \* archive walks of one converter
MaxFailingPages == 7    \* pages of a list whose images may fail to decode
MaxExports == 3         \* export calls on one exporter

(***************************************************************************)
(* Strings.                                                                *)
(***************************************************************************)
Chars(tok) ==
    CASE tok = "xml" -> <<"x", "m", "l">>
      [] tok = "__MACOSX" -> <<"_", "_", "M", "A", "C", "O", "S", "X">>
      [] tok = "page" -> <<"p", "a", "g", "e">>
      [] tok = "project" -> <<"p", "r", "o", "j", "e", "c", "t">>
      [] tok = "foo" -> <<"f", "o", "o">>
      [] tok = "file" -> <<"f", "i", "l", "e">>
      [] tok = "valid" -> <<"v", "a", "l", "i", "d">>
      [] tok = "normal" -> <<"n", "o", "r", "m", "a", "l">>
      [] tok = "DS" -> <<"D", "S">>
      [] tok = "Store" -> <<"S", "t", "o", "r", "e">>
      [] tok = "images" -> <<"i", "m", "a", "g", "e", "s">>
      [] tok = "jpg" -> <<"j", "p", "g">>
      [] tok = "readingOrder" ->
             <<"r", "e", "a", "d", "i", "n", "g", "O", "r", "d", "e", "r">>
      [] tok = "index" -> <<"i", "n", "d", "e", "x">>
      [] tok = "structure" -> <<"s", "t", "r", "u", "c", "t", "u", "r", "e">>
      [] tok = "type" -> <<"t", "y", "p", "e">>
      [] tok = "heading" -> <<"h", "e", "a", "d", "i", "n", "g">>
      [] tok = "paragraph" -> <<"p", "a", "r", "a", "g", "r", "a", "p", "h">>
      [] tok = "region" -> <<"r", "e", "g", "i", "o", "n">>
      [] tok = "line" -> <<"l", "i", "n", "e">>
      [] tok = "test" -> <<"t", "e", "s", "t">>
      [] OTHER -> <<tok>>

RECURSIVE Str(_)
Str(toks) ==
    IF toks = <<>> THEN <<>> ELSE Chars(Head(toks)) \o Str(Tail(toks))

\* Python: sub in s
StrIn(sub, s) ==
    \E i \in 0..(Len(s) - Len(sub)) : SubSeq(s, i + 1, i + Len(sub)) = sub

\* Python: s.startswith(p)
StartsWith(s, p) ==
    Len(p) <= Len(s) /\ SubSeq(s, 1, Len(p)) = p

\* Python: s.endswith(p)
EndsWith(s, p) ==
    Len(p) <= Len(s) /\ SubSeq(s, Len(s) - Len(p) + 1, Len(s)) = p

\* Python: s.split(sep) for a one-character separator (empty parts are kept)
RECURSIVE SplitOn(_, _)
SplitOn(s, sep) ==
    IF \A i \in 1..Len(s) : s[i] # sep
    THEN <<s>>
    ELSE LET k == CHOOSE i \in 1..Len(s) :
                      s[i] = sep /\ \A j \in 1..(i - 1) : s[j] # sep
         IN <<SubSeq(s, 1, k - 1)>> \o SplitOn(SubSeq(s, k + 1, Len(s)), sep)

\* Python: s.split() (runs of whitespace separate, empty parts are dropped)
RECURSIVE SplitWhitespace(_)
SplitWhitespace(s) ==
    IF s = <<>> THEN <<>>
    ELSE IF Head(s) = " " THEN SplitWhitespace(Tail(s))
    ELSE LET stops == {i \in 1..Len(s) : s[i] = " "}
             k == IF stops = {} THEN Len(s) + 1
                  ELSE CHOOSE i \in stops : \A j \in stops : i <= j
         IN <<SubSeq(s, 1, k - 1)>> \o SplitWhitespace(SubSeq(s, k, Len(s)))

\* All sequences over S of length at most n
SeqsUpTo(S, n) == UNION {[1..k -> S] : k \in 0..n}

(***************************************************************************)
(* parser.py: TranskribusParser._is_macos_metadata_file                    *)
(***************************************************************************)
IsMacosMetadataFile(p) ==
    IF StrIn(Str(<<"__MACOSX">>), p) \/ StartsWith(p, <<".", "_">>)
    THEN TRUE
    ELSE IF StrIn(<<"/", ".">>, p) /\ ~EndsWith(p, Str(<<".", "xml">>))
    THEN TRUE
    ELSE FALSE

PathTokens == {"/", ".", "_", "xml", "__MACOSX", "a"}

\* The paths of tests/test_parser.py and of the specification's examples
TestPaths ==
    { <<"__MACOSX", "/", "page", "/", "foo", ".", "xml">>,
      <<"__MACOSX", "/", "file", ".", "xml">>,
      <<".", "_", "file", ".", "xml">>,
      <<"project", "/", ".", "_", "page", ".", "xml">>,
      <<"project", "/", ".", "DS", "_", "Store">>,
      <<"project", "/", "page", "/", "valid", ".", "xml">>,
      <<"project", "/", "page", "/", "file", ".", "xml">>,
      <<"normal", "_", "file", ".", "xml">> }

InitClassifier ==
    /\ file_path \in SeqsUpTo(PathTokens, MaxPathTokens) \cup TestPaths
    /\ classifier = [called |-> FALSE, result |-> FALSE]

IdleClassifier ==
    /\ file_path = <<>>
    /\ classifier = [called |-> FALSE, result |-> FALSE]

Classify ==
    /\ ~classifier.called
    /\ classifier' = [called |-> TRUE, result |-> IsMacosMetadataFile(Str(file_path))]
    /\ UNCHANGED file_path
    /\ UNCHANGED <<varsCoords, varsExporter, varsParse, varsConvert, varsCalls, varsCli>>

(***************************************************************************)
(* parser.py: TranskribusParser._parse_coords                              *)
(***************************************************************************)
Digits == {"0", "1", "2", "3", "4", "5", "6", "7", "8", "9"}

DigitValue(c) ==
    CASE c = "0" -> 0 [] c = "1" -> 1 [] c = "2" -> 2 [] c = "3" -> 3
      [] c = "4" -> 4 [] c = "5" -> 5 [] c = "6" -> 6 [] c = "7" -> 7
      [] c = "8" -> 8 [] c = "9" -> 9

RECURSIVE DecimalValue(_)
DecimalValue(s) ==
    IF s = <<>> THEN 0
    ELSE 10 * DecimalValue(SubSeq(s, 1, Len(s) - 1)) + DigitValue(s[Len(s)])

\* Python: s.strip()
RECURSIVE LStrip(_)
LStrip(s) == IF s # <<>> /\ Head(s) = " " THEN LStrip(Tail(s)) ELSE s

RECURSIVE RStrip(_)
RStrip(s) ==
    IF s # <<>> /\ s[Len(s)] = " " THEN RStrip(SubSeq(s, 1, Len(s) - 1)) ELSE s

Strip(s) == RStrip(LStrip(s))

Unsigned(s) == IF s # <<>> /\ Head(s) \in {"-", "+"} THEN Tail(s) ELSE s

IsDigit(c) == c \in Digits

\* Python: int(s) for a str s accepts surrounding whitespace, an optional sign and
\* decimal digits with single underscores between them; ValueError otherwise
IsIntLiteral(s) ==
    LET body == Unsigned(Strip(s))
    IN /\ body # <<>>
       /\ \A i \in 1..Len(body) : body[i] \in Digits \cup {"_"}
       /\ body[1] \in Digits
       /\ body[Len(body)] \in Digits
       /\ \A i \in 1..(Len(body) - 1) : ~(body[i] = "_" /\ body[i + 1] = "_")

IntOf(s) ==
    LET t == Strip(s)
        magnitude == DecimalValue(SelectSeq(Unsigned(t), IsDigit))
    IN IF Head(t) = "-" THEN 0 - magnitude ELSE magnitude

\* The loop of _parse_coords over the tokens of points_str.split(): the first token
\* on which the unpacking or int() raises ends the call with that exception.
RECURSIVE ParsePoints(_, _)
ParsePoints(tokens, acc) ==
    IF tokens = <<>> THEN [raised |-> FALSE, coords |-> acc]
    ELSE LET point == Head(tokens)
             parts == SplitOn(point, ",")
         IN IF ~StrIn(<<",">>, point)
            THEN ParsePoints(Tail(tokens), acc)
            ELSE IF Len(parts) # 2
            THEN [raised |-> TRUE, coords |-> <<>>]
            ELSE IF ~IsIntLiteral(parts[1]) \/ ~IsIntLiteral(parts[2])
            THEN [raised |-> TRUE, coords |-> <<>>]
            ELSE ParsePoints(Tail(tokens),
                             Append(acc, <<IntOf(parts[1]), IntOf(parts[2])>>))

\* coords_elem is [present, points]: whether there is a Coords element (None
\* otherwise) and the value of its points attribute, the empty string when the
\* attribute is missing.
NoCoordsElem == [present |-> FALSE, points |-> <<>>]

CoordsElem(points) == [present |-> TRUE, points |-> points]

ParseCoords(coords_elem) ==
    IF ~coords_elem.present THEN [raised |-> FALSE, coords |-> <<>>]
    ELSE IF coords_elem.points = <<>> THEN [raised |-> FALSE, coords |-> <<>>]
    ELSE ParsePoints(SplitWhitespace(coords_elem.points), <<>>)

PointsChars == {"1", "5", ",", "x", " "}

\* points="5,3 100,3 100,50 5,50" (tests/test_parser.py)
TestPoints ==
    <<"5", ",", "3", " ", "1", "0", "0", ",", "3", " ",
      "1", "0", "0", ",", "5", "0", " ", "5", ",", "5", "0">>

InitCoords ==
    /\ points_attr \in {CoordsElem(p) : p \in SeqsUpTo(PointsChars, MaxPointsLen) \cup {TestPoints}}
                       \cup {NoCoordsElem}
    /\ coords_call = [called |-> FALSE, raised |-> FALSE, coords |-> <<>>]

IdleCoords ==
    /\ points_attr = NoCoordsElem
    /\ coords_call = [called |-> FALSE, raised |-> FALSE, coords |-> <<>>]

CallParseCoords ==
    /\ ~coords_call.called
    /\ coords_call' = [called |-> TRUE] @@ ParseCoords(points_attr)
    /\ UNCHANGED points_attr
    /\ UNCHANGED <<varsClassifier, varsExporter, varsParse, varsConvert, varsCalls, varsCli>>

(***************************************************************************)
(* parser.py: the PAGE XML document and TranskribusParser._parse_page_xml. *)
(*                                                                         *)
(* The decoded document text is modelled by what ET.fromstring makes of    *)
(* it: whether it is well-formed, its Page element, its ReadingOrder       *)
(* element and its TextRegion elements in document order.  An attribute is *)
(* [present, value].                                                       *)
(***************************************************************************)
NoAttr == [present |-> FALSE, value |-> <<>>]

Attr(value) == [present |-> TRUE, value |-> value]

\* element.get(name, default)
Get(attr, default) == IF attr.present THEN attr.value ELSE default

\* int(element.get(name, 0)): the attribute as an int, 0 when it is missing,
\* ValueError when it is no integer literal
IntAttrRaises(attr) == attr.present /\ ~IsIntLiteral(Str(attr.value))

IntAttr(attr) == IF attr.present THEN IntOf(Str(attr.value)) ELSE 0

\* The position after the whitespace of s that starts at position p
RECURSIVE SkipWhitespace(_, _)
SkipWhitespace(s, p) ==
    IF p <= Len(s) /\ s[p] = " " THEN SkipWhitespace(s, p + 1) ELSE p

\* The position after the digits of s that start at position p
RECURSIVE SkipDigits(_, _)
SkipDigits(s, p) ==
    IF p <= Len(s) /\ s[p] \in Digits THEN SkipDigits(s, p + 1) ELSE p

\* Whether s holds lit at position p
LiteralAt(s, p, lit) ==
    p + Len(lit) - 1 <= Len(s) /\ SubSeq(s, p, p + Len(lit) - 1) = lit

NoMatch == [matched |-> FALSE, group |-> <<>>]

\* (\d+) at position p
MatchDigits(s, p, q) ==
    IF q > p THEN [matched |-> TRUE, group |-> SubSeq(s, p, q - 1)] ELSE NoMatch

\* :\s*(\d+) at position p
MatchColon(s, p) ==
    IF LiteralAt(s, p, <<":">>)
    THEN MatchDigits(s, SkipWhitespace(s, p + 1),
                     SkipDigits(s, SkipWhitespace(s, p + 1)))
    ELSE NoMatch

\* index\s*:\s*(\d+) at position p
MatchIndex(s, p) ==
    IF LiteralAt(s, p, Str(<<"index">>))
    THEN MatchColon(s, SkipWhitespace(s, p + Len(Str(<<"index">>))))
    ELSE NoMatch

\* \{\s*index\s*:\s*(\d+) at position p
MatchBrace(s, p) ==
    IF LiteralAt(s, p, <<"{">>) THEN MatchIndex(s, SkipWhitespace(s, p + 1))
    ELSE NoMatch

\* A match of  readingOrder\s*\{\s*index\s*:\s*(\d+)  that starts at position p:
\* [matched, group] with group the digits of (\d+)
ReadingOrderMatchAt(s, p) ==
    IF LiteralAt(s, p, Str(<<"readingOrder">>))
    THEN MatchBrace(s, SkipWhitespace(s, p + Len(Str(<<"readingOrder">>))))
    ELSE NoMatch

\* re.search(r'readingOrder\s*\{\s*index\s*:\s*(\d+)', s) from position p on: the
\* leftmost match
RECURSIVE ReadingOrderSearchFrom(_, _)
ReadingOrderSearchFrom(s, p) ==
    IF p > Len(s) THEN NoMatch
    ELSE IF ReadingOrderMatchAt(s, p).matched THEN ReadingOrderMatchAt(s, p)
    ELSE ReadingOrderSearchFrom(s, p + 1)

ReadingOrderSearch(s) == ReadingOrderSearchFrom(s, 1)

\* Mutant: the group takes one digit, (\d) for (\d+)
MatchGroupInt_OneDigit(match) ==
    IF match.matched THEN DecimalValue(SubSeq(match.group, 1, 1)) ELSE 0

\* if match: return int(match.group(1)); return 0 otherwise
MatchGroupInt(match) ==
    IF match.matched THEN DecimalValue(match.group) ELSE 0

\* TranskribusParser._extract_reading_order_from_custom
ExtractReadingOrderFromCustom(custom_attr) ==
    IF StrIn(Str(<<"readingOrder">>), Str(Get(custom_attr, <<>>)))
    THEN MatchGroupInt(ReadingOrderSearch(Str(Get(custom_attr, <<>>))))
    ELSE 0

\* TranskribusParser._get_text_equiv; text_equiv is [present, text]: whether the
\* element has a TextEquiv/Unicode child, and that child's text
GetTextEquiv(text_equiv) ==
    IF text_equiv.present /\ text_equiv.text # <<>> THEN text_equiv.text ELSE <<>>

\* list.sort(key=lambda x: x.reading_order): x goes after the elements of the
\* sorted list whose key is not greater
RECURSIVE InsertByReadingOrder(_, _)
InsertByReadingOrder(sorted, x) ==
    IF sorted = <<>> THEN <<x>>
    ELSE IF Head(sorted).reading_order <= x.reading_order
    THEN <<Head(sorted)>> \o InsertByReadingOrder(Tail(sorted), x)
    ELSE <<x>> \o sorted

RECURSIVE SortedPrefix(_, _)
SortedPrefix(items, n) ==
    IF n = 0 THEN <<>>
    ELSE InsertByReadingOrder(SortedPrefix(items, n - 1), items[n])

\* Mutant: the list is left in document order
SortByReadingOrder_Unsorted(items) == items

\* items.sort(key=lambda x: x.reading_order), a stable sort
SortByReadingOrder(items) == SortedPrefix(items, Len(items))

\* The dict of _parse_reading_order as its items in insertion order
RECURSIVE DictSet(_, _, _)
DictSet(d, key, value) ==
    IF d = <<>> THEN <<[key |-> key, value |-> value]>>
    ELSE IF Head(d).key = key THEN <<[key |-> key, value |-> value]>> \o Tail(d)
    ELSE <<Head(d)>> \o DictSet(Tail(d), key, value)

\* dict.get(key, default)
DictGet(d, key, default) ==
    IF \E i \in 1..Len(d) : d[i].key = key
    THEN d[CHOOSE i \in 1..Len(d) : d[i].key = key].value
    ELSE default

\* TranskribusParser._parse_reading_order: the loop over the RegionRefIndexed
\* elements; int() of a non-integer index raises ValueError
RECURSIVE ReadingOrderOfRefs(_, _)
ReadingOrderOfRefs(refs, d) ==
    IF refs = <<>> THEN [raised |-> FALSE, dict |-> d]
    ELSE IF IntAttrRaises(Head(refs).index) THEN [raised |-> TRUE, dict |-> <<>>]
    ELSE ReadingOrderOfRefs(Tail(refs),
                            DictSet(d, Str(Get(Head(refs).regionRef, <<>>)),
                                    IntAttr(Head(refs).index)))

\* TranskribusParser._parse_reading_order
ParseReadingOrder(doc) ==
    IF doc.reading_order.present
    THEN ReadingOrderOfRefs(doc.reading_order.refs, <<>>)
    ELSE [raised |-> FALSE, dict |-> <<>>]

\* The TextLine that _parse_text_lines builds from an element, given what
\* _parse_coords made of its Coords and Baseline children: [raised, line]
TextLineOf(line_elem, region_id, coords, baseline) ==
    [raised |-> coords.raised \/ baseline.raised,
     line |-> [id |-> Get(line_elem.id, <<>>),
               text |-> GetTextEquiv(line_elem.text_equiv),
               coords |-> coords.coords,
               baseline |-> [present |-> line_elem.baseline.present,
                             coords |-> baseline.coords],
               reading_order |-> ExtractReadingOrderFromCustom(line_elem.custom),
               region_id |-> region_id]]

\* TranskribusParser._parse_text_lines, the loop body: the TextLine built from one
\* element, or the ValueError of _parse_coords
ParseTextLine(line_elem, region_id) ==
    TextLineOf(line_elem, region_id, ParseCoords(line_elem.coords),
               IF line_elem.baseline.present THEN ParseCoords(line_elem.baseline)
               ELSE [raised |-> FALSE, coords |-> <<>>])

\* lines.sort(key=lambda l: l.reading_order) once every line is built
SortedLines(built) ==
    IF \E k \in 1..Len(built) : built[k].raised
    THEN [raised |-> TRUE, lines |-> <<>>]
    ELSE [raised |-> FALSE,
          lines |-> SortByReadingOrder([k \in 1..Len(built) |-> built[k].line])]

\* TranskribusParser._parse_text_lines; a ValueError of _parse_coords is not caught
ParseTextLines(region_elem, region_id) ==
    SortedLines([k \in 1..Len(region_elem.lines) |->
                    ParseTextLine(region_elem.lines[k], region_id)])

\* Mutant: a region without a text of its own takes the text of its first line
TextRegionOf_FromLines(region_elem, reading_order, coords, text_lines) ==
    [raised |-> coords.raised \/ text_lines.raised,
     region |-> [id |-> Get(region_elem.id, <<>>),
                 type |-> Get(region_elem.type, <<"paragraph">>),
                 coords |-> coords.coords,
                 text_lines |-> text_lines.lines,
                 reading_order |-> DictGet(reading_order,
                                           Str(Get(region_elem.id, <<>>)), 0),
                 full_text |-> IF GetTextEquiv(region_elem.text_equiv) # <<>>
                               THEN GetTextEquiv(region_elem.text_equiv)
                               ELSE IF text_lines.lines = <<>> THEN <<>>
                               ELSE text_lines.lines[1].text]]

\* The TextRegion that _parse_text_regions builds from an element, given what
\* _parse_coords and _parse_text_lines made of it: [raised, region]
TextRegionOf(region_elem, reading_order, coords, text_lines) ==
    [raised |-> coords.raised \/ text_lines.raised,
     region |-> [id |-> Get(region_elem.id, <<>>),
                 type |-> Get(region_elem.type, <<"paragraph">>),
                 coords |-> coords.coords,
                 text_lines |-> text_lines.lines,
                 reading_order |-> DictGet(reading_order,
                                           Str(Get(region_elem.id, <<>>)), 0),
                 full_text |-> GetTextEquiv(region_elem.text_equiv)]]

\* TranskribusParser._parse_text_regions, the loop body: the TextRegion built from
\* one element, or the ValueError of _parse_coords
ParseTextRegion(region_elem, reading_order) ==
    TextRegionOf(region_elem, reading_order, ParseCoords(region_elem.coords),
                 ParseTextLines(region_elem, Get(region_elem.id, <<>>)))

\* regions.sort(key=lambda r: r.reading_order) once every region is built
SortedRegions(built) ==
    IF \E k \in 1..Len(built) : built[k].raised
    THEN [raised |-> TRUE, regions |-> <<>>]
    ELSE [raised |-> FALSE,
          regions |-> SortByReadingOrder([k \in 1..Len(built) |-> built[k].region])]

\* TranskribusParser._parse_text_regions
ParseTextRegions(doc, reading_order) ==
    SortedRegions([k \in 1..Len(doc.regions) |->
                      ParseTextRegion(doc.regions[k], reading_order)])

NoPage ==
    [image_filename |-> <<>>, image_width |-> 0, image_height |-> 0,
     regions |-> <<>>, xml_content |-> <<>>, project_name |-> <<>>]

\* The PageData that _parse_page_xml builds once the regions are parsed
PageDataOf(xml_content, project_name, regions) ==
    IF \/ IntAttrRaises(xml_content.page.imageWidth)
       \/ IntAttrRaises(xml_content.page.imageHeight)
       \/ regions.raised
    THEN [outcome |-> "ValueError", page |-> NoPage]
    ELSE [outcome |-> "PageData",
          page |-> [image_filename |-> Get(xml_content.page.imageFilename, <<>>),
                    image_width |-> IntAttr(xml_content.page.imageWidth),
                    image_height |-> IntAttr(xml_content.page.imageHeight),
                    regions |-> regions.regions,
                    xml_content |-> xml_content,
                    project_name |-> project_name]]

\* _parse_page_xml from the reading-order table on
PageWithReadingOrder(xml_content, project_name, reading_order) ==
    IF reading_order.raised THEN [outcome |-> "ValueError", page |-> NoPage]
    ELSE PageDataOf(xml_content, project_name,
                    ParseTextRegions(xml_content, reading_order.dict))

\* TranskribusParser._parse_page_xml: [outcome, page] with outcome "PageData",
\* "None" (ParseError caught, or no Page element) or "ValueError" (propagated)
ParsePageXml(xml_content, project_name) ==
    IF ~xml_content.wellformed THEN [outcome |-> "None", page |-> NoPage]
    ELSE IF ~xml_content.page.present THEN [outcome |-> "None", page |-> NoPage]
    ELSE PageWithReadingOrder(xml_content, project_name,
                              ParseReadingOrder(xml_content))

(***************************************************************************)
(* Python built-ins used by the exporters.                                 *)
(***************************************************************************)
\* Python: min(xs), max(xs) over a non-empty collection
Min(S) == CHOOSE x \in S : \A y \in S : x <= y

Max(S) == CHOOSE x \in S : \A y \in S : x >= y

\* Python: s[lo:hi] for a list s (negative bounds count from the end, both are clamped)
PySlice(s, lo, hi) ==
    LET n == Len(s)
        norm(k) == IF k < 0 THEN (IF k + n < 0 THEN 0 ELSE k + n)
                   ELSE IF k > n THEN n ELSE k
    IN IF norm(lo) < norm(hi) THEN SubSeq(s, norm(lo) + 1, norm(hi)) ELSE <<>>

DigitChar(d) ==
    CASE d = 0 -> "0" [] d = 1 -> "1" [] d = 2 -> "2" [] d = 3 -> "3"
      [] d = 4 -> "4" [] d = 5 -> "5" [] d = 6 -> "6" [] d = 7 -> "7"
      [] d = 8 -> "8" [] d = 9 -> "9"

RECURSIVE NatStr(_)
NatStr(n) ==
    IF n < 10 THEN <<DigitChar(n)>> ELSE NatStr(n \div 10) \o <<DigitChar(n % 10)>>

\* Python: str(n) for an int
IntStr(n) == IF n < 0 THEN <<"-">> \o NatStr(0 - n) ELSE NatStr(n)

\* Python: sep.join(parts)
RECURSIVE Join(_, _)
Join(sep, parts) ==
    IF parts = <<>> THEN <<>>
    ELSE IF Len(parts) = 1 THEN parts[1]
    ELSE parts[1] \o sep \o Join(sep, Tail(parts))

\* Python: [f(x) for x in xs if x.field], for the fields the exporters read
RECURSIVE NonEmptyCoords(_)
NonEmptyCoords(lines) ==
    IF lines = <<>> THEN <<>>
    ELSE (IF Head(lines).coords # <<>> THEN <<Head(lines).coords>> ELSE <<>>)
         \o NonEmptyCoords(Tail(lines))

RECURSIVE NonEmptyTexts(_)
NonEmptyTexts(lines) ==
    IF lines = <<>> THEN <<>>
    ELSE (IF Head(lines).text # <<>> THEN <<Head(lines).text>> ELSE <<>>)
         \o NonEmptyTexts(Tail(lines))

\* Mutant: the empty texts are kept
NonEmptyFullTexts_KeepEmpty(regions) ==
    [k \in 1..Len(regions) |-> regions[k].full_text]

RECURSIVE NonEmptyFullTexts(_)
NonEmptyFullTexts(regions) ==
    IF regions = <<>> THEN <<>>
    ELSE (IF Head(regions).full_text # <<>> THEN <<Head(regions).full_text>> ELSE <<>>)
         \o NonEmptyFullTexts(Tail(regions))

(***************************************************************************)
(* exporters.py: BaseExporter                                              *)
(***************************************************************************)
NoExporter ==
    [state |-> "none", kind |-> "none", window_size |-> 0, overlap |-> 0,
     processed_count |-> 0, skipped_count |-> 0, failed_images |-> <<>>]

\* BaseExporter.__init__
BaseExporterInit(kind) ==
    [state |-> "constructed", kind |-> kind, window_size |-> 0, overlap |-> 0,
     processed_count |-> 0, skipped_count |-> 0, failed_images |-> <<>>]

NoImage == [ok |-> FALSE, width |-> 0, height |-> 0]

NoPath == [found |-> FALSE, path |-> <<>>]

\* zip_file.namelist(), as strings
NameList(arch) == [i \in 1..Len(arch) |-> Str(arch[i].name)]

\* Mutant: of the candidates that are entries, the last one is returned
FirstIn_LastCandidate(candidates, names) ==
    LET hits == {k \in 1..Len(candidates) :
                    \E i \in 1..Len(names) : names[i] = candidates[k]}
    IN IF hits = {} THEN NoPath
       ELSE [found |-> TRUE, path |-> candidates[Max(hits)]]

\* for path in possible_paths: if path in file_list: return path
RECURSIVE FirstIn(_, _)
FirstIn(candidates, names) ==
    IF candidates = <<>> THEN NoPath
    ELSE IF \E i \in 1..Len(names) : names[i] = Head(candidates)
    THEN [found |-> TRUE, path |-> Head(candidates)]
    ELSE FirstIn(Tail(candidates), names)

\* BaseExporter._find_image_path
FindImagePath(arch, page) ==
    LET filename == Str(page.image_filename)
        project == Str(page.project_name)
        possible_paths == << project \o <<"/">> \o filename,
                             project \o Str(<<"/", "images", "/">>) \o filename,
                             filename >>
        file_list == NameList(arch)
        exact == FirstIn(possible_paths, file_list)
        ends == {i \in 1..Len(file_list) : EndsWith(file_list[i], filename)}
    IN IF exact.found THEN exact
       ELSE IF ends # {} THEN [found |-> TRUE, path |-> file_list[Min(ends)]]
       ELSE NoPath

\* zip_file.read(path) followed by Image.open / verify / convert: the decoded raster,
\* or NoImage when any of them raises
OpenImage(arch, path) ==
    LET hits == {i \in 1..Len(arch) : Str(arch[i].name) = path}
    IN IF hits = {} THEN NoImage
       ELSE LET data == arch[Max(hits)].data
            IN IF data.kind = "image" /\ data.ok
               THEN [ok |-> TRUE, width |-> data.width, height |-> data.height]
               ELSE NoImage

\* BaseExporter._load_image_from_zip: the exporter after the call (st) and the image
LoadImageFromZip(st, arch, path) ==
    LET image == OpenImage(arch, path)
    IN IF image.ok THEN [st |-> st, image |-> image]
       ELSE [st |-> [st EXCEPT !.failed_images = Append(@, path),
                               !.skipped_count = @ + 1],
             image |-> NoImage]

NoCrop == [ok |-> FALSE, box |-> <<0, 0, 0, 0>>]

\* Mutant: a rectangle without extent on an axis is cropped too
CropRegion_Strict(image, coords) ==
    IF coords = <<>> THEN NoCrop
    ELSE LET x_coords == {coords[i][1] : i \in 1..Len(coords)}
             y_coords == {coords[i][2] : i \in 1..Len(coords)}
             min_x == Max({0, Min(x_coords)})
             min_y == Max({0, Min(y_coords)})
             max_x == Min({image.width, Max(x_coords)})
             max_y == Min({image.height, Max(y_coords)})
         IN IF min_x > max_x \/ min_y > max_y THEN NoCrop
            ELSE [ok |-> TRUE, box |-> <<min_x, min_y, max_x, max_y>>]

\* BaseExporter._crop_region: the rectangle that image.crop() is given
CropRegion(image, coords) ==
    IF coords = <<>> THEN NoCrop
    ELSE LET x_coords == {coords[i][1] : i \in 1..Len(coords)}
             y_coords == {coords[i][2] : i \in 1..Len(coords)}
             min_x == Max({0, Min(x_coords)})
             min_y == Max({0, Min(y_coords)})
             max_x == Min({image.width, Max(x_coords)})
             max_y == Min({image.height, Max(y_coords)})
         IN IF min_x >= max_x \/ min_y >= max_y THEN NoCrop
            ELSE [ok |-> TRUE, box |-> <<min_x, min_y, max_x, max_y>>]

RECURSIVE Concat(_)
Concat(seqs) == IF seqs = <<>> THEN <<>> ELSE Head(seqs) \o Concat(Tail(seqs))

\* BaseExporter._calculate_bounding_box
CalculateBoundingBox(coords_list) ==
    LET all_coords == Concat(coords_list)
    IN IF coords_list = <<>> THEN <<>>
       ELSE IF all_coords = <<>> THEN <<>>
       ELSE LET x_coords == {all_coords[i][1] : i \in 1..Len(all_coords)}
                y_coords == {all_coords[i][2] : i \in 1..Len(all_coords)}
                min_x == Min(x_coords)
                max_x == Max(x_coords)
                min_y == Min(y_coords)
                max_y == Max(y_coords)
            IN << <<min_x, min_y>>, <<max_x, min_y>>, <<max_x, max_y>>, <<min_x, max_y>> >>

\* Mutant: the record is yielded without being counted
Emit_Uncounted(acc, record) ==
    [acc EXCEPT !.records = Append(@, record)]

\* self.processed_count += 1; yield record
Emit(acc, record) ==
    [acc EXCEPT !.st.processed_count = @ + 1, !.records = Append(@, record)]

(***************************************************************************)
(* exporters.py: WindowExporter                                            *)
(***************************************************************************)
\* Mutant: the constructor refuses only overlap > window_size
WindowArgsRejected_Strict(window_size, overlap) == overlap > window_size

\* WindowExporter.__init__: the condition under which it raises ValueError
WindowArgsRejected(window_size, overlap) == overlap >= window_size

\* WindowExporter.__init__
WindowExporterInit(window_size, overlap) ==
    IF WindowArgsRejected(window_size, overlap)
    THEN [NoExporter EXCEPT !.state = "ValueError"]
    ELSE [BaseExporterInit("window") EXCEPT !.window_size = window_size,
                                            !.overlap = overlap]

\* Mutant: the loop without its break, a window at every start index
RECURSIVE WindowLoop_NoBreak(_, _, _, _, _)
WindowLoop_NoBreak(lines, window_size, step, i, acc) ==
    IF i >= Len(lines) THEN acc
    ELSE LET window == PySlice(lines, i, i + window_size)
         IN WindowLoop_NoBreak(lines, window_size, step, i + step,
                               IF Len(window) > 0 THEN Append(acc, window) ELSE acc)

\* The for loop of _create_windows from index i on; acc is the list built so far
RECURSIVE WindowLoop(_, _, _, _, _)
WindowLoop(lines, window_size, step, i, acc) ==
    IF i >= Len(lines) THEN acc
    ELSE LET window == PySlice(lines, i, i + window_size)
             appended == IF Len(window) > 0 THEN Append(acc, window) ELSE acc
         IN IF i + window_size >= Len(lines) THEN appended
            ELSE WindowLoop(lines, window_size, step, i + step, appended)

\* Mutant: the step is the window size, the overlap is ignored
CreateWindows_StepIsSize(lines, window_size, overlap) ==
    IF lines = <<>> \/ window_size <= 0 THEN [raised |-> FALSE, windows |-> <<>>]
    ELSE [raised |-> FALSE,
          windows |-> WindowLoop(lines, window_size, window_size, 0, <<>>)]

\* WindowExporter._create_windows; range() raises ValueError for a zero step and
\* is empty for a negative one
CreateWindows(lines, window_size, overlap) ==
    LET step == window_size - overlap
    IN IF lines = <<>> THEN [raised |-> FALSE, windows |-> <<>>]
       ELSE IF step = 0 THEN [raised |-> TRUE, windows |-> <<>>]
       ELSE IF step < 0 THEN [raised |-> FALSE, windows |-> <<>>]
       ELSE [raised |-> FALSE,
             windows |-> WindowLoop(lines, window_size, step, 0, <<>>)]

\* The body of the loop over enumerate(windows) in WindowExporter.export
WindowRecord(acc, page, image, region, window_idx, window_lines) ==
    LET line_coords == NonEmptyCoords(window_lines)
        window_image == CropRegion(image, CalculateBoundingBox(line_coords))
    IN IF line_coords = <<>> THEN acc
       ELSE IF ~window_image.ok THEN acc
       ELSE Emit(acc,
                 [image |-> window_image.box,
                  text |-> Join(<<"\n">>, NonEmptyTexts(window_lines)),
                  window_size |-> Len(window_lines),
                  window_index |-> window_idx,
                  line_ids |-> Join(<<",", " ">>,
                                    [k \in 1..Len(window_lines) |-> window_lines[k].id]),
                  line_reading_orders |->
                      Join(<<",", " ">>,
                           [k \in 1..Len(window_lines) |->
                                IntStr(window_lines[k].reading_order)]),
                  region_id |-> region.id,
                  region_reading_order |-> region.reading_order,
                  region_type |-> region.type,
                  filename |-> page.image_filename,
                  project |-> page.project_name])

\* for window_idx, window_lines in enumerate(windows)
RECURSIVE WindowRecords(_, _, _, _, _, _)
WindowRecords(acc, page, image, region, windows, k) ==
    IF k > Len(windows) THEN acc
    ELSE WindowRecords(WindowRecord(acc, page, image, region, k - 1, windows[k]),
                       page, image, region, windows, k + 1)

\* The loop over page.regions in WindowExporter.export; an exception of
\* _create_windows ends the export
RECURSIVE WindowRegions(_, _, _, _)
WindowRegions(acc, page, image, regions) ==
    IF regions = <<>> \/ acc.raised THEN acc
    ELSE LET made == CreateWindows(Head(regions).text_lines,
                                   acc.st.window_size, acc.st.overlap)
         IN IF made.raised THEN [acc EXCEPT !.raised = TRUE]
            ELSE WindowRegions(
                     WindowRecords(acc, page, image, Head(regions), made.windows, 1),
                     page, image, Tail(regions))

(***************************************************************************)
(* exporters.py: RawXMLExporter, TextExporter, RegionExporter, LineExporter *)
(***************************************************************************)
\* Mutant: the record holds the document text without its last character
RawXmlPage_Truncated(acc, page, image) ==
    Emit(acc, [image |-> image,
               xml |-> [page.xml_content EXCEPT
                            !.chars = SubSeq(@, 1, Len(@) - 1)],
               filename |-> page.image_filename,
               project |-> page.project_name])

\* RawXMLExporter.export: the record of a page whose image loaded
RawXmlPage(acc, page, image) ==
    Emit(acc, [image |-> image,
               xml |-> page.xml_content,
               filename |-> page.image_filename,
               project |-> page.project_name])

\* TextExporter.export: the record of a page whose image loaded
TextPage(acc, page, image) ==
    Emit(acc, [image |-> image,
               text |-> Join(<<"\n">>, NonEmptyFullTexts(page.regions)),
               filename |-> page.image_filename,
               project |-> page.project_name])

\* RegionExporter.export: the loop over page.regions
RECURSIVE RegionRecords(_, _, _, _)
RegionRecords(acc, page, image, regions) ==
    IF regions = <<>> THEN acc
    ELSE LET region == Head(regions)
             region_image == CropRegion(image, region.coords)
         IN RegionRecords(
                IF ~region_image.ok THEN acc
                ELSE Emit(acc, [image |-> region_image.box,
                                text |-> region.full_text,
                                region_type |-> region.type,
                                region_id |-> region.id,
                                reading_order |-> region.reading_order,
                                filename |-> page.image_filename,
                                project |-> page.project_name]),
                page, image, Tail(regions))

\* LineExporter.export: the loop over region.text_lines
RECURSIVE LineRecords(_, _, _, _, _)
LineRecords(acc, page, image, region, lines) ==
    IF lines = <<>> THEN acc
    ELSE LET line == Head(lines)
             line_image == CropRegion(image, line.coords)
         IN LineRecords(
                IF ~line_image.ok THEN acc
                ELSE Emit(acc, [image |-> line_image.box,
                                text |-> line.text,
                                line_id |-> line.id,
                                line_reading_order |-> line.reading_order,
                                region_id |-> line.region_id,
                                region_reading_order |-> region.reading_order,
                                region_type |-> region.type,
                                filename |-> page.image_filename,
                                project |-> page.project_name]),
                page, image, region, Tail(lines))

\* LineExporter.export: the loop over page.regions
RECURSIVE LineRegions(_, _, _, _)
LineRegions(acc, page, image, regions) ==
    IF regions = <<>> THEN acc
    ELSE LineRegions(LineRecords(acc, page, image, Head(regions),
                                 Head(regions).text_lines),
                     page, image, Tail(regions))

\* What each exporter's generator does for a page whose image loaded
PageBody(acc, page, image) ==
    CASE acc.st.kind = "raw_xml" -> RawXmlPage(acc, page, image)
      [] acc.st.kind = "text" -> TextPage(acc, page, image)
      [] acc.st.kind = "region" -> RegionRecords(acc, page, image, page.regions)
      [] acc.st.kind = "line" -> LineRegions(acc, page, image, page.regions)
      [] acc.st.kind = "window" -> WindowRegions(acc, page, image, page.regions)

\* The loop over pages that every exporter's generate_examples runs
RECURSIVE ExportPages(_, _, _)
ExportPages(acc, arch, pgs) ==
    IF pgs = <<>> \/ acc.raised THEN acc
    ELSE LET page == Head(pgs)
             image_path == FindImagePath(arch, page)
             loaded == LoadImageFromZip(acc.st, arch, image_path.path)
         IN IF ~image_path.found THEN ExportPages(acc, arch, Tail(pgs))
            ELSE IF ~loaded.image.ok
            THEN ExportPages([acc EXCEPT !.st = loaded.st], arch, Tail(pgs))
            ELSE ExportPages(PageBody([acc EXCEPT !.st = loaded.st], page, loaded.image),
                             arch, Tail(pgs))

\* export(pages) of the exporter st: Dataset.from_generator runs the generator to
\* its end; the result is the exporter afterwards, the records and whether the
\* generator raised
Export(st, arch, pgs) ==
    ExportPages([st |-> st, records |-> <<>>, raised |-> FALSE], arch, pgs)

NoSummary == [printed |-> FALSE, processed |-> 0, skipped |-> 0, failed |-> <<>>, more |-> 0]

\* Mutant: every failed image is listed
PrintSummary_All(st) ==
    [printed |-> TRUE,
     processed |-> st.processed_count,
     skipped |-> st.skipped_count,
     failed |-> st.failed_images,
     more |-> 0]

\* BaseExporter._print_summary: the two counts, the failed images it lists and
\* the number in its "... and N more" line, 0 when it prints none
PrintSummary(st) ==
    [printed |-> TRUE,
     processed |-> st.processed_count,
     skipped |-> st.skipped_count,
     failed |-> PySlice(st.failed_images, 0, 5),
     more |-> IF Len(st.failed_images) > 5 THEN Len(st.failed_images) - 5 ELSE 0]

NoDataset ==
    [returned |-> FALSE, raised |-> FALSE, records |-> <<>>, summary |-> NoSummary,
     calls |-> 0, emitted |-> 0]

\* What export() leaves: the dataset it returns and the summary it prints before
\* it returns, or the exception of the generator; calls and emitted are the
\* number of export calls made and of records their generators yielded
DatasetOf(result) ==
    [returned |-> ~result.raised, raised |-> result.raised,
     records |-> IF result.raised THEN <<>> ELSE result.records,
     summary |-> IF result.raised THEN NoSummary ELSE PrintSummary(result.st),
     calls |-> 1, emitted |-> Len(result.records)]

(***************************************************************************)
(* A WindowExporter and its calls.                                         *)
(***************************************************************************)
ImageEntry(name, ok, width, height) ==
    [name |-> name,
     data |-> [kind |-> "image", ok |-> ok, width |-> width, height |-> height]]

NoBaseline == [present |-> FALSE, coords |-> <<>>]

\* Line i of a region as the parser leaves it; its polygon is a box of the image
\* or is missing
LineFixture(i, has_coords) ==
    [id |-> <<"l", DigitChar(i)>>,
     text |-> <<"t", DigitChar(i)>>,
     coords |-> IF has_coords
                THEN << <<10, 10 * i>>, <<90, 10 * i>>,
                        <<90, 10 * i + 8>>, <<10, 10 * i + 8>> >>
                ELSE <<>>,
     baseline |-> NoBaseline,
     reading_order |-> i - 1,
     region_id |-> <<"r", "1">>]

RegionFixture(lines) ==
    [id |-> <<"r", "1">>, type |-> <<"paragraph">>,
     coords |-> << <<5, 3>>, <<100, 3>>, <<100, 50>>, <<5, 50>> >>,
     text_lines |-> lines, reading_order |-> 0, full_text |-> <<"t">>]

PageFixture(regions) ==
    [image_filename |-> <<"img", ".", "jpg">>, image_width |-> 100,
     image_height |-> 100, regions |-> regions, xml_content |-> <<>>,
     project_name |-> <<"project">>]

LineLists ==
    UNION {{[i \in 1..n |-> LineFixture(i, has[i])] : has \in [1..n -> BOOLEAN]} :
           n \in 0..MaxLines}

WindowParams == (0 - MaxNegative)..MaxWindowSize

NoWindowsCall == [called |-> FALSE, lines |-> <<>>, raised |-> FALSE, windows |-> <<>>]

\* Pages of two regions, each of up to three lines that all have a polygon
TwoRegionPages ==
    {PageFixture(<<RegionFixture([i \in 1..n |-> LineFixture(i, TRUE)]),
                   [RegionFixture([i \in 1..m |-> LineFixture(i, TRUE)])
                        EXCEPT !.id = <<"r", "2">>, !.reading_order = 1]>>) :
         n \in 0..3, m \in 0..3}

InitWindow ==
    /\ window_args \in [window_size : WindowParams, overlap : WindowParams]
    /\ pages \in {<<PageFixture(<<RegionFixture(lines)>>)>> : lines \in LineLists}
                     \cup {<<page>> : page \in TwoRegionPages}
    /\ archive = <<ImageEntry(<<"project", "/", "img", ".", "jpg">>, TRUE, 100, 100)>>
    /\ zip_log = <<>>
    /\ exporter = NoExporter
    /\ windows_call = NoWindowsCall
    /\ dataset = NoDataset

IdleExporter ==
    /\ window_args = [window_size |-> 2, overlap |-> 0]
    /\ pages = <<>>
    /\ archive = <<>>
    /\ zip_log = <<>>
    /\ exporter = NoExporter
    /\ windows_call = NoWindowsCall
    /\ dataset = NoDataset

\* WindowExporter(zip_path, window_size=..., overlap=...)
NewWindowExporter ==
    /\ exporter.state = "none"
    /\ exporter' = WindowExporterInit(window_args.window_size, window_args.overlap)
    /\ UNCHANGED <<archive, zip_log, pages, window_args, windows_call, dataset>>
    /\ UNCHANGED <<varsClassifier, varsCoords, varsParse, varsConvert, varsCalls, varsCli>>

\* exporter._create_windows(lines) on the lines of a region
CallCreateWindows ==
    /\ exporter.state = "constructed"
    /\ exporter.kind = "window"
    /\ ~windows_call.called
    /\ \E p \in 1..Len(pages) : \E r \in 1..Len(pages[p].regions) :
          LET lines == pages[p].regions[r].text_lines
              made == CreateWindows(lines, exporter.window_size, exporter.overlap)
          IN windows_call' = [called |-> TRUE, lines |-> lines,
                              raised |-> made.raised, windows |-> made.windows]
    /\ UNCHANGED <<archive, zip_log, pages, window_args, exporter, dataset>>
    /\ UNCHANGED <<varsClassifier, varsCoords, varsParse, varsConvert, varsCalls, varsCli>>

\* exporter.export(pages)
CallExport ==
    /\ exporter.state = "constructed"
    /\ ~dataset.returned
    /\ ~dataset.raised
    /\ LET result == Export(exporter, archive, pages)
       IN /\ exporter' = result.st
          /\ dataset' = DatasetOf(result)
    /\ zip_log' = Append(zip_log, "exporter")
    /\ UNCHANGED <<archive, pages, window_args, windows_call>>
    /\ UNCHANGED <<varsClassifier, varsCoords, varsParse, varsConvert, varsCalls, varsCli>>

\* exporter.export(pages) on an exporter that has exported before: the counters
\* of the instance are not reset
CallExportAgain ==
    /\ exporter.state = "constructed"
    /\ dataset.calls >= 1
    /\ dataset.calls < MaxExports
    /\ LET result == Export(exporter, archive, pages)
       IN /\ exporter' = result.st
          /\ dataset' = [DatasetOf(result) EXCEPT
                             !.calls = dataset.calls + 1,
                             !.emitted = dataset.emitted + Len(result.records)]
    /\ zip_log' = Append(zip_log, "exporter")
    /\ UNCHANGED <<archive, pages, window_args, windows_call>>
    /\ UNCHANGED <<varsClassifier, varsCoords, varsParse, varsConvert, varsCalls, varsCli>>

(***************************************************************************)
(* An exporter of each class, its _find_image_path and its export().       *)
(***************************************************************************)
NoImagePathCall == [called |-> FALSE, page |-> 0, found |-> FALSE, path |-> <<>>]

NoStatsCall ==
    [called |-> FALSE, total_pages |-> 0, total_regions |-> 0, total_lines |-> 0]

IdleCalls ==
    /\ image_path_call = NoImagePathCall
    /\ stats_call = NoStatsCall

NoCli ==
    [zip_exists |-> TRUE, repo_id |-> FALSE, stats_only |-> FALSE, local_only |-> TRUE,
     mode |-> "text", window_size |-> 2, overlap |-> 0,
     called |-> FALSE, exit_code |-> 0, stage |-> "none", converter_made |-> FALSE]

IdleCli == cli = NoCli

InsideBox == << <<5, 3>>, <<100, 3>>, <<100, 50>>, <<5, 50>> >>

\* A polygon beyond the right and bottom edges of every image of the archives
OutsideBox == << <<200, 200>>, <<300, 200>>, <<300, 300>>, <<200, 300>> >>

\* A polygon that reaches beyond every edge but the right one of a 100 x 100 image
StraddlingBox == << <<0 - 5, 0 - 5>>, <<50, 0 - 5>>, <<50, 120>>, <<0 - 5, 120>> >>

\* A polygon that begins at the right edge of a 100 x 100 image
EdgeBox == << <<100, 10>>, <<150, 10>>, <<150, 40>>, <<100, 40>> >>

\* A polygon of one point
PointBox == << <<20, 30>> >>

\* Region k of a page as the parser leaves it
RegionWith(k, coords, full_text, lines) ==
    [id |-> <<"r", DigitChar(k)>>, type |-> <<"paragraph">>, coords |-> coords,
     text_lines |-> lines, reading_order |-> k - 1, full_text |-> full_text]

\* Pages of one region whose polygon, text and lines vary
GeometryPages ==
    {PageFixture(<<RegionWith(1, coords, full_text, lines)>>) :
         coords \in {InsideBox, OutsideBox, StraddlingBox, EdgeBox, PointBox, <<>>},
         full_text \in {<<>>, <<"T">>},
         lines \in {l \in LineLists : Len(l) <= 2}}

\* Pages whose regions' texts vary; each region has one line with a text of its own
TextPages ==
    UNION {{PageFixture([k \in 1..n |->
                            RegionWith(k, InsideBox, texts[k], <<LineFixture(1, TRUE)>>)]) :
               texts \in [1..n -> {<<>>, <<"A">>, <<"B", "\n", "C">>}]} :
           n \in 0..MaxTextRegions}

\* A page whose image is project/b.jpg
SecondPage ==
    [PageFixture(<<RegionFixture(<<LineFixture(1, TRUE)>>)>>)
         EXCEPT !.image_filename = <<"b", ".", "jpg">>]

\* The entries an image called img.jpg of project may be found at, in the order
\* the archive lists them; each image has a width of its own
ImagePool(ok) ==
    << ImageEntry(<<"other", "/", "x", "img", ".", "jpg">>, TRUE, 104, 100),
       ImageEntry(<<"zzz", "/", "img", ".", "jpg">>, TRUE, 105, 100),
       ImageEntry(<<"img", ".", "jpg">>, TRUE, 103, 100),
       ImageEntry(<<"project", "/", "images", "/", "img", ".", "jpg">>, TRUE, 102, 100),
       ImageEntry(<<"project", "/", "img", ".", "jpg">>, ok, 101, 100) >>

\* The entries of pool that mask keeps, in order
RECURSIVE Kept(_, _, _)
Kept(pool, mask, k) ==
    IF k > Len(pool) THEN <<>>
    ELSE (IF mask[k] THEN <<pool[k]>> ELSE <<>>) \o Kept(pool, mask, k + 1)

ImageArchives ==
    {Kept(ImagePool(ok), mask, 1)
         \o <<ImageEntry(<<"project", "/", "b", ".", "jpg">>, TRUE, 100, 100)>> :
         ok \in BOOLEAN, mask \in [1..5 -> BOOLEAN]}

\* Page k of a list whose images are project/1.jpg, project/2.jpg, ...
NumberedPage(k) ==
    [PageFixture(<<RegionFixture(<<LineFixture(1, TRUE)>>)>>)
         EXCEPT !.image_filename = <<DigitChar(k), ".", "jpg">>]

\* Archives with the image of each of MaxFailingPages pages, each image one that
\* decodes or one that does not
FailingArchives ==
    {[k \in 1..MaxFailingPages |->
         ImageEntry(<<"project", "/", DigitChar(k), ".", "jpg">>, decodes[k], 100, 100)] :
         decodes \in [1..MaxFailingPages -> BOOLEAN]}

Exporters ==
    {BaseExporterInit(kind) : kind \in {"raw_xml", "text", "region", "line"}}
    \cup {WindowExporterInit(2, 0), WindowExporterInit(2, 1)}

InitExport ==
    /\ exporter \in Exporters
    /\ \/ /\ archive \in ImageArchives
          /\ pages = <<PageFixture(<<RegionFixture(<<LineFixture(1, TRUE)>>)>>),
                       SecondPage>>
       \/ /\ archive = <<ImageEntry(<<"project", "/", "img", ".", "jpg">>, TRUE, 100, 100)>>
          /\ pages \in {<<page>> : page \in GeometryPages \cup TextPages}
       \/ /\ archive \in FailingArchives
          /\ pages = [k \in 1..MaxFailingPages |-> NumberedPage(k)]
    /\ window_args = [window_size |-> exporter.window_size, overlap |-> exporter.overlap]
    /\ zip_log = <<>>
    /\ windows_call = NoWindowsCall
    /\ dataset = NoDataset
    /\ image_path_call = NoImagePathCall
    /\ stats_call = NoStatsCall

\* exporter._find_image_path(zip_file, page) for a page of the list
CallFindImagePath ==
    /\ exporter.state = "constructed"
    /\ ~image_path_call.called
    /\ \E p \in 1..Len(pages) :
          image_path_call' = [called |-> TRUE, page |-> p]
                                 @@ FindImagePath(archive, pages[p])
    /\ UNCHANGED stats_call
    /\ UNCHANGED varsExporter
    /\ UNCHANGED <<varsClassifier, varsCoords, varsParse, varsConvert, varsCli>>

(***************************************************************************)
(* Documents, and a call of _parse_page_xml.                               *)
(***************************************************************************)
\* The points attribute of the rectangle (x1, y1) - (x2, y2)
BoxPoints(x1, y1, x2, y2) ==
    Join(<<" ">>, << IntStr(x1) \o <<",">> \o IntStr(y1),
                    IntStr(x2) \o <<",">> \o IntStr(y1),
                    IntStr(x2) \o <<",">> \o IntStr(y2),
                    IntStr(x1) \o <<",">> \o IntStr(y2) >>)

TextEquiv(text) == [present |-> TRUE, text |-> text]

NoTextEquiv == [present |-> FALSE, text |-> <<>>]

\* The k-th TextLine element of a region
LineElem(k, custom) ==
    [id |-> Attr(<<"line", "_", DigitChar(k)>>),
     coords |-> CoordsElem(BoxPoints(10, 10 * k, 90, 10 * k + 8)),
     baseline |-> NoCoordsElem,
     text_equiv |-> TextEquiv(<<"t", DigitChar(k)>>),
     custom |-> custom]

\* The k-th TextRegion element of a document
RegionElem(k, id, lines) ==
    [id |-> Attr(id),
     type |-> Attr(<<"paragraph">>),
     coords |-> CoordsElem(TestPoints),
     lines |-> lines,
     text_equiv |-> TextEquiv(<<"T", DigitChar(k)>>)]

PageElem(filename) ==
    [present |-> TRUE, imageFilename |-> Attr(filename),
     imageWidth |-> Attr(<<"1", "0", "0">>), imageHeight |-> Attr(<<"1", "0", "0">>)]

\* A well-formed document with a Page element
Doc(filename, refs, regions) ==
    [wellformed |-> TRUE,
     page |-> PageElem(filename),
     reading_order |-> [present |-> refs # <<>>, refs |-> refs],
     regions |-> regions]

\* A document that ET.fromstring rejects, and one without a Page element in the
\* PAGE namespace
MalformedDoc ==
    [wellformed |-> FALSE,
     page |-> [present |-> FALSE, imageFilename |-> NoAttr,
               imageWidth |-> NoAttr, imageHeight |-> NoAttr],
     reading_order |-> [present |-> FALSE, refs |-> <<>>],
     regions |-> <<>>]

NotAPageDoc == [MalformedDoc EXCEPT !.wellformed = TRUE]

Custom(digits) == <<"readingOrder", " ", "{", "index", ":">> \o digits \o <<";", "}">>

\* custom attributes of TextLine elements
CustomSamples ==
    { NoAttr,
      Attr(Custom(<<"0">>)),
      Attr(Custom(<<"1">>)),
      Attr(Custom(<<"1", "2">>)),
      Attr(<<"structure", " ", "{", "type", ":", "heading", ";", "}", " ",
             "readingOrder", "{", " ", "index", " ", ":", " ", "2", ";", "}">>),
      Attr(<<"structure", " ", "{", "type", ":", "heading", ";", "}">>),
      Attr(Custom(<<"x">>)) }

RegionIds == { <<"region", "_", "1">>, <<"region", "_", "2">>, <<"region", "_", "3">> }

\* RegionRefIndexed elements: the table lists region_1 and region_2 only
RegionRefs ==
    [regionRef : {Attr(<<"region", "_", "1">>), Attr(<<"region", "_", "2">>)},
     index : {Attr(<<"0">>), Attr(<<"1">>)}]

\* A table whose index attribute is not an integer literal
BadIndexRefs == << [regionRef |-> Attr(<<"region", "_", "1">>), index |-> Attr(<<"x">>)] >>

\* The two lines of the sample document, the second one first in reading order
SwappedLines == << LineElem(1, Attr(Custom(<<"1">>))), LineElem(2, Attr(Custom(<<"0">>))) >>

\* Documents whose regions and reading-order table vary
RegionOrderDocs ==
    UNION {{Doc(<<"img", ".", "jpg">>, refs,
                [k \in 1..n |-> RegionElem(k, ids[k], SwappedLines)]) :
              ids \in [1..n -> RegionIds], refs \in SeqsUpTo(RegionRefs, MaxRefs)} :
           n \in 0..MaxRegions}

\* A table that lists a line id beside the region
LineRefs ==
    << [regionRef |-> Attr(<<"line", "_", "1">>), index |-> Attr(<<"2">>)],
       [regionRef |-> Attr(<<"region", "_", "1">>), index |-> Attr(<<"1">>)] >>

\* Documents of one region whose lines vary
LineOrderDocs ==
    UNION {{Doc(<<"img", ".", "jpg">>, refs,
                <<RegionElem(1, <<"region", "_", "1">>,
                             [k \in 1..n |-> LineElem(k, customs[k])])>>) :
              customs \in [1..n -> CustomSamples], refs \in {<<>>, LineRefs}} :
           n \in 0..MaxDocLines}

\* Documents without regions whose imageWidth and imageHeight attributes are
\* missing, integers, or no integer literals
PageSizeDocs ==
    {[Doc(<<"img", ".", "jpg">>, <<>>, <<>>) EXCEPT !.page.imageWidth = w,
                                                   !.page.imageHeight = h] :
         w \in {NoAttr, Attr(<<"1", "0", "0">>), Attr(<<"x">>), Attr(<<>>)},
         h \in {NoAttr, Attr(<<" ", "7", " ">>), Attr(<<"1", ".", "5">>)}}

\* Documents of one region whose own TextEquiv and whose lines' TextEquiv are
\* missing, empty or hold a text; the region's text may be that of a line
TextEquivDocs ==
    UNION {{Doc(<<"img", ".", "jpg">>, <<>>,
                <<[RegionElem(1, <<"region", "_", "1">>,
                              [k \in 1..n |->
                                  [LineElem(k, NoAttr) EXCEPT !.text_equiv = line_texts[k]]])
                      EXCEPT !.text_equiv = region_text]>>) :
              region_text \in {NoTextEquiv, TextEquiv(<<>>), TextEquiv(<<"T", "1">>),
                               TextEquiv(<<"t", "1">>)},
              line_texts \in [1..n -> {NoTextEquiv, TextEquiv(<<"t", "1">>),
                                       TextEquiv(<<"t", "2">>)}]} :
           n \in 0..2}

NotParsed == [called |-> FALSE, outcome |-> "None", page |-> NoPage]

InitParse ==
    /\ xml_doc \in [xml_content : RegionOrderDocs \cup LineOrderDocs \cup PageSizeDocs
                                      \cup TextEquivDocs
                                      \cup {MalformedDoc, NotAPageDoc,
                                            Doc(<<"img", ".", "jpg">>, BadIndexRefs, <<>>)},
                     project_name : {<<"project">>}]
    /\ parsed = NotParsed

IdleParse ==
    /\ xml_doc = [xml_content |-> MalformedDoc, project_name |-> <<>>]
    /\ parsed = NotParsed

\* parser._parse_page_xml(xml_content, project_name)
CallParsePageXml ==
    /\ ~parsed.called
    /\ parsed' = [called |-> TRUE] @@ ParsePageXml(xml_doc.xml_content, xml_doc.project_name)
    /\ UNCHANGED xml_doc
    /\ UNCHANGED <<varsClassifier, varsCoords, varsExporter, varsConvert, varsCalls, varsCli>>

(***************************************************************************)
(* parser.py: the archive walk (parse_zip) and the decoding of an entry.   *)
(*                                                                         *)
(* An entry of the archive that holds a document is                        *)
(*   [name, data |-> [kind |-> "xml", readable, markup, bytes, detected]]  *)
(* markup is the ASCII part of the file (what ET.fromstring makes of it),  *)
(* bytes are the bytes of its non-ASCII content, detected is what          *)
(* chardet.detect reports for the file: [encoding, confidence], the        *)
(* confidence in hundredths.  The decoded text is the markup together with *)
(* the characters (code points) the bytes decode to.                       *)
(***************************************************************************)
NoText == [ok |-> FALSE, chars |-> <<>>]

\* bytes.decode('utf-8') over one- and two-byte forms: [ok, chars]; any other
\* byte is a UnicodeDecodeError (the sample bytes hold no complete longer form)
RECURSIVE Utf8Decode(_)
Utf8Decode(bytes) ==
    IF bytes = <<>> THEN [ok |-> TRUE, chars |-> <<>>]
    ELSE IF Head(bytes) < 128
    THEN LET rest == Utf8Decode(Tail(bytes))
         IN IF rest.ok THEN [ok |-> TRUE, chars |-> <<Head(bytes)>> \o rest.chars]
            ELSE NoText
    ELSE IF /\ Head(bytes) \in 194..223
            /\ Len(bytes) >= 2
            /\ bytes[2] \in 128..191
    THEN LET rest == Utf8Decode(Tail(Tail(bytes)))
         IN IF rest.ok
            THEN [ok |-> TRUE,
                  chars |-> <<(Head(bytes) - 192) * 64 + (bytes[2] - 128)>> \o rest.chars]
            ELSE NoText
    ELSE NoText

\* The code point a single-byte encoding gives byte b, -1 when it has none
ByteChar(encoding, b) ==
    CASE encoding \in {"latin-1", "iso-8859-1", "ISO-8859-1"} -> b
      [] encoding \in {"cp1252", "Windows-1252"} ->
             IF b = 129 THEN 0 - 1 ELSE b
      [] encoding = "IBM866" ->
             CASE b < 128 -> b
               [] b = 129 -> 1041
               [] b = 169 -> 1081
               [] b = 195 -> 9500
               [] b = 233 -> 1097

KnownEncodings ==
    {"utf-8", "latin-1", "iso-8859-1", "ISO-8859-1", "cp1252", "Windows-1252", "IBM866"}

\* raw_content.decode(encoding): [ok, chars]; not ok stands for UnicodeDecodeError
\* and, for a name Python does not know, LookupError
DecodeWith(encoding, bytes) ==
    IF encoding \notin KnownEncodings THEN NoText
    ELSE IF encoding = "utf-8" THEN Utf8Decode(bytes)
    ELSE IF \E i \in 1..Len(bytes) : ByteChar(encoding, bytes[i]) < 0 THEN NoText
    ELSE [ok |-> TRUE, chars |-> [i \in 1..Len(bytes) |-> ByteChar(encoding, bytes[i])]]

\* Mutant: no encoding of the fallback list decodes the bytes
FirstDecoding_NoFallback(encodings, bytes) == NoText

\* for encoding in [...]: the first decoding of the list that succeeds
RECURSIVE FirstDecoding(_, _)
FirstDecoding(encodings, bytes) ==
    IF encodings = <<>> THEN NoText
    ELSE IF DecodeWith(Head(encodings), bytes).ok THEN DecodeWith(Head(encodings), bytes)
    ELSE FirstDecoding(Tail(encodings), bytes)

\* for encoding in [...]: the encodings the loop tries, up to the first success
RECURSIVE TriedEncodings(_, _)
TriedEncodings(encodings, bytes) ==
    IF encodings = <<>> THEN <<>>
    ELSE IF DecodeWith(Head(encodings), bytes).ok THEN <<Head(encodings)>>
    ELSE <<Head(encodings)>> \o TriedEncodings(Tail(encodings), bytes)

\* Mutant: a confidence of exactly 0.7 is accepted
DecodeDetected_AtThreshold(bytes, detected, guess) ==
    IF detected.confidence >= 70 /\ detected.encoding # "" /\ guess.ok THEN guess
    ELSE FirstDecoding(<<"latin-1", "cp1252", "iso-8859-1">>, bytes)

\* _read_xml_with_encoding after the UTF-8 attempt failed: the detector's encoding
\* when its confidence exceeds 0.7 and it decodes the bytes, the fallbacks otherwise
DecodeDetected(bytes, detected, guess) ==
    IF detected.confidence > 70 /\ detected.encoding # "" /\ guess.ok THEN guess
    ELSE FirstDecoding(<<"latin-1", "cp1252", "iso-8859-1">>, bytes)

\* _read_xml_with_encoding after the UTF-8 attempt
DecodeAfterUtf8(bytes, detected, utf8) ==
    IF utf8.ok THEN utf8
    ELSE DecodeDetected(bytes, detected, DecodeWith(detected.encoding, bytes))

\* The characters _read_xml_with_encoding decodes the bytes to
DecodeBytes(bytes, detected) ==
    DecodeAfterUtf8(bytes, detected, DecodeWith("utf-8", bytes))

\* zip_file.read(name): the data of the entry of that name (the last one, when
\* the archive holds the name twice)
ZipRead(arch, name) ==
    arch[Max({i \in 1..Len(arch) : Str(arch[i].name) = name})].data

\* The text of an entry's data whose bytes decoded
DecodedText(data, decoded) ==
    IF ~decoded.ok THEN [ok |-> FALSE, text |-> MalformedDoc]
    ELSE [ok |-> TRUE,
          text |-> [wellformed |-> data.markup.wellformed,
                    page |-> data.markup.page,
                    reading_order |-> data.markup.reading_order,
                    regions |-> data.markup.regions,
                    chars |-> decoded.chars]]

\* _read_xml_with_encoding on the data zip_file.read gave; an entry that cannot
\* be read raises, which is caught
ReadData(data) ==
    IF data.kind # "xml" THEN [ok |-> FALSE, text |-> MalformedDoc]
    ELSE IF ~data.readable THEN [ok |-> FALSE, text |-> MalformedDoc]
    ELSE DecodedText(data, DecodeBytes(data.bytes, data.detected))

\* TranskribusParser._read_xml_with_encoding: [ok, text]; not ok stands for None
ReadXmlWithEncoding(arch, xml_file) == ReadData(ZipRead(arch, xml_file))

RECURSIVE GroupFilesByProject_Ungrouped(_, _)
\* Mutant: every file opens a group of its own, so the walk follows the archive
GroupFilesByProject_Ungrouped(file_list, projects) ==
    IF file_list = <<>> THEN projects
    ELSE GroupFilesByProject_Ungrouped(
             Tail(file_list),
             IF StrIn(<<"/">>, Head(file_list))
             THEN Append(projects, [key |-> Head(SplitOn(Head(file_list), "/")),
                                    value |-> <<Head(file_list)>>])
             ELSE projects)

\* TranskribusParser._group_files_by_project: the dict as a list of
\* [key, value] in insertion order
RECURSIVE GroupFilesByProject(_, _)
GroupFilesByProject(file_list, projects) ==
    IF file_list = <<>> THEN projects
    ELSE LET path == Head(file_list)
             project_name == Head(SplitOn(path, "/"))
         IN GroupFilesByProject(
                Tail(file_list),
                IF StrIn(<<"/">>, path)
                THEN DictSet(projects, project_name,
                             Append(DictGet(projects, project_name, <<>>), path))
                ELSE projects)

\* parse_zip: the condition of the list comprehension xml_files
IsPageXmlFile(f) ==
    /\ EndsWith(f, Str(<<".", "xml">>))
    /\ StrIn(Str(<<"/", "page", "/">>), f)
    /\ ~IsMacosMetadataFile(f)

\* [f for f in project_files if ...]
RECURSIVE XmlFiles(_)
XmlFiles(project_files) ==
    IF project_files = <<>> THEN <<>>
    ELSE IF IsPageXmlFile(Head(project_files))
    THEN <<Head(project_files)>> \o XmlFiles(Tail(project_files))
    ELSE XmlFiles(Tail(project_files))

\* parse_zip, the end of the loop body: pages.append(page_data) if page_data;
\* an exception of _parse_page_xml is caught.  walk is [pages, handed]: the
\* pages appended so far and the arguments _parse_page_xml was called with.
WalkParsed(walk, xml_file, xml_content, project_name, page_data) ==
    [pages |-> IF page_data.outcome = "PageData"
               THEN Append(walk.pages, page_data.page)
               ELSE walk.pages,
     handed |-> Append(walk.handed,
                       [xml_file |-> xml_file,
                        xml_content |-> xml_content,
                        project_name |-> project_name])]

\* parse_zip, the loop body after _read_xml_with_encoding: None goes on to the
\* next file
WalkRead(walk, xml_file, project_name, xml_content) ==
    IF ~xml_content.ok THEN walk
    ELSE WalkParsed(walk, xml_file, xml_content.text, project_name,
                    ParsePageXml(xml_content.text, project_name))

RECURSIVE WalkXmlFiles_StopAtFailure(_, _, _, _)
\* Mutant: a document that yields no page ends the loop over the project's files
WalkXmlFiles_StopAtFailure(arch, project_name, xml_files, walk) ==
    IF xml_files = <<>> THEN walk
    ELSE IF Len(WalkRead(walk, Head(xml_files), project_name,
                         ReadXmlWithEncoding(arch, Head(xml_files))).pages)
               = Len(walk.pages)
    THEN walk
    ELSE WalkXmlFiles_StopAtFailure(
             arch, project_name, Tail(xml_files),
             WalkRead(walk, Head(xml_files), project_name,
                      ReadXmlWithEncoding(arch, Head(xml_files))))

\* parse_zip: the loop over xml_files of one project
RECURSIVE WalkXmlFiles(_, _, _, _)
WalkXmlFiles(arch, project_name, xml_files, walk) ==
    IF xml_files = <<>> THEN walk
    ELSE WalkXmlFiles(arch, project_name, Tail(xml_files),
                      WalkRead(walk, Head(xml_files), project_name,
                               ReadXmlWithEncoding(arch, Head(xml_files))))

\* parse_zip: the loop over projects.items()
RECURSIVE WalkProjects(_, _, _)
WalkProjects(arch, projects, walk) ==
    IF projects = <<>> THEN walk
    ELSE WalkProjects(arch, Tail(projects),
                      WalkXmlFiles(arch, Head(projects).key,
                                   XmlFiles(Head(projects).value), walk))

\* TranskribusParser.parse_zip: [pages, handed]
ParseZip(arch) ==
    WalkProjects(arch, GroupFilesByProject(NameList(arch), <<>>),
                 [pages |-> <<>>, handed |-> <<>>])

(***************************************************************************)
(* converter.py: TranskribusConverter.                                     *)
(***************************************************************************)
\* TranskribusConverter.EXPORT_MODES: mode name -> exporter class
EXPORT_MODES ==
    [raw_xml |-> "RawXMLExporter",
     text |-> "TextExporter",
     region |-> "RegionExporter",
     line |-> "LineExporter",
     window |-> "WindowExporter"]

\* TranskribusConverter.__init__
NewConverter == [pages_none |-> TRUE, pages |-> <<>>]

NoConvertCall == [called |-> FALSE, outcome |-> "none", error |-> "none"]

\* exporter_class(self.zip_path) / exporter_class(self.zip_path, window_size=..., overlap=...)
NewExporter(export_mode, window_size, overlap) ==
    IF export_mode = "window" THEN WindowExporterInit(window_size, overlap)
    ELSE BaseExporterInit(export_mode)

(***************************************************************************)
(* Archives, and the calls of a converter.                                 *)
(***************************************************************************)
XmlEntry(name, readable, markup, bytes, detected) ==
    [name |-> name,
     data |-> [kind |-> "xml", readable |-> readable, markup |-> markup,
               bytes |-> bytes, detected |-> detected]]

\* Bytes of a document's non-ASCII content: none, ASCII, the UTF-8 form of U+00E9,
\* its latin-1 form, a lead byte with nothing after it, a byte cp1252 leaves undefined
ByteSamples == { <<>>, <<65>>, <<195, 169>>, <<233>>, <<65, 195>>, <<129>> }

\* What chardet.detect reports: nothing, an encoding at, below and above the
\* threshold, a name Python does not know
Detections ==
    { [encoding |-> "", confidence |-> 0],
      [encoding |-> "IBM866", confidence |-> 70],
      [encoding |-> "IBM866", confidence |-> 99],
      [encoding |-> "Windows-1252", confidence |-> 73],
      [encoding |-> "x-unknown", confidence |-> 90] }

\* The document of the sample archive: one region of two lines
SampleDoc(filename) ==
    Doc(filename, <<>>, <<RegionElem(1, <<"region", "_", "1">>, SwappedLines)>>)

\* The data of project/page/a.xml
FirstDocuments ==
    {XmlEntry(<<"project", "/", "page", "/", "a", ".", "xml">>, TRUE,
              SampleDoc(<<"img", ".", "jpg">>), bytes, detected) :
         bytes \in ByteSamples, detected \in Detections}
    \cup {XmlEntry(<<"project", "/", "page", "/", "a", ".", "xml">>, readable, markup,
                   <<>>, [encoding |-> "", confidence |-> 0]) :
             readable \in BOOLEAN, markup \in {MalformedDoc, NotAPageDoc}}

\* A second document: none, one of another project, one of the same project whose
\* image is missing, one with a points attribute int() refuses, one outside page/,
\* one whose top-level directory is page, one at the top of the archive
SecondDocuments ==
    { <<>>,
      <<XmlEntry(<<"foo", "/", "page", "/", "b", ".", "xml">>, TRUE,
                 SampleDoc(<<"img", ".", "jpg">>), <<233>>,
                 [encoding |-> "", confidence |-> 0])>>,
      <<XmlEntry(<<"project", "/", "page", "/", "b", ".", "xml">>, TRUE,
                 SampleDoc(<<"b", ".", "jpg">>), <<>>,
                 [encoding |-> "", confidence |-> 0])>>,
      <<XmlEntry(<<"project", "/", "page", "/", "b", ".", "xml">>, TRUE,
                 Doc(<<"img", ".", "jpg">>, BadIndexRefs, <<>>), <<>>,
                 [encoding |-> "", confidence |-> 0])>>,
      <<XmlEntry(<<"project", "/", "b", ".", "xml">>, TRUE,
                 SampleDoc(<<"img", ".", "jpg">>), <<>>,
                 [encoding |-> "", confidence |-> 0])>>,
      <<XmlEntry(<<"page", "/", "b", ".", "xml">>, TRUE,
                 SampleDoc(<<"img", ".", "jpg">>), <<>>,
                 [encoding |-> "", confidence |-> 0])>>,
      <<XmlEntry(<<"b", ".", "xml">>, TRUE,
                 SampleDoc(<<"img", ".", "jpg">>), <<>>,
                 [encoding |-> "", confidence |-> 0])>> }

\* A third document: none, or one more of project after the second document
ThirdDocuments ==
    { <<>>,
      <<XmlEntry(<<"project", "/", "page", "/", "c", ".", "xml">>, TRUE,
                 SampleDoc(<<"c", ".", "jpg">>), <<>>,
                 [encoding |-> "", confidence |-> 0])>> }

\* The image, a first document and a second one; after an ASCII first document
\* also a third one
Archives ==
    {arch \in
        {<<ImageEntry(<<"project", "/", "img", ".", "jpg">>, TRUE, 100, 100), first>>
             \o second \o third :
             first \in FirstDocuments, second \in SecondDocuments,
             third \in ThirdDocuments} :
        arch[Len(arch)].name = <<"project", "/", "page", "/", "c", ".", "xml">>
            => arch[2].data.bytes = <<65>> /\ arch[2].data.detected.confidence = 0}

\* The arguments of convert(): every mode with the default window parameters,
\* names that are not in the registry, and window mode with each pair of parameters
ConvertArgs ==
    [export_mode : (DOMAIN EXPORT_MODES) \cup {"polygon_region", "polygon_line", "bogus"},
     window_size : {2}, overlap : {0}]
    \cup [export_mode : {"window"}, window_size : WindowParams, overlap : WindowParams]

\* The archives whose first document is plain ASCII
PlainArchives ==
    {arch \in Archives :
        /\ arch[2].data.bytes = <<65>>
        /\ arch[2].data.detected.confidence = 0}

\* Every archive with two of the modes, and the plain archives with every
\* argument of convert()
InitConvert ==
    /\ \/ /\ archive \in Archives
          /\ convert_args \in [export_mode : {"raw_xml", "line"},
                               window_size : {2}, overlap : {0}]
       \/ /\ archive \in PlainArchives
          /\ convert_args \in ConvertArgs
    /\ converter = NewConverter
    /\ convert_call = NoConvertCall
    /\ handed = <<>>
    /\ zip_log = <<>>
    /\ pages = <<>>
    /\ window_args = [window_size |-> 2, overlap |-> 0]
    /\ exporter = NoExporter
    /\ windows_call = NoWindowsCall
    /\ dataset = NoDataset

IdleConvert ==
    /\ convert_args = [export_mode |-> "text", window_size |-> 2, overlap |-> 0]
    /\ converter = NewConverter
    /\ convert_call = NoConvertCall
    /\ handed = <<>>

\* self.pages = self.parser.parse_zip(self.zip_path)
ParseInto(walk) ==
    /\ converter' = [pages_none |-> FALSE, pages |-> walk.pages]
    /\ handed' = handed \o walk.handed
    /\ zip_log' = Append(zip_log, "parser")

\* The number of times the parser has opened the archive
ParserWalks == Cardinality({k \in 1..Len(zip_log) : zip_log[k] = "parser"})

\* converter.parse(): parse_zip is called whatever self.pages holds
Parse ==
    /\ ParserWalks < MaxParses
    /\ ParseInto(ParseZip(archive))
    /\ UNCHANGED <<archive, pages, window_args, exporter, windows_call, dataset>>
    /\ UNCHANGED <<convert_args, convert_call>>
    /\ UNCHANGED <<varsClassifier, varsCoords, varsParse, varsCalls, varsCli>>

\* sum(len(region.text_lines) for region in regions)
RECURSIVE TotalLines(_)
TotalLines(regions) ==
    IF regions = <<>> THEN 0
    ELSE Len(Head(regions).text_lines) + TotalLines(Tail(regions))

\* get_stats() on the pages pgs: the counts of the returned dict
StatsOf(pgs) ==
    [called |-> TRUE,
     total_pages |-> Len(pgs),
     total_regions |-> Len(Concat([p \in 1..Len(pgs) |-> pgs[p].regions])),
     total_lines |-> TotalLines(Concat([p \in 1..Len(pgs) |-> pgs[p].regions]))]

\* get_stats() with walk what parse() made of the archive
GetStatsWalk(walk) ==
    /\ ParseInto(walk)
    /\ stats_call' = StatsOf(walk.pages)

\* converter.get_stats(): parse() when nothing is parsed yet, then the counts
GetStats ==
    /\ ~stats_call.called
    /\ IF converter.pages_none
       THEN GetStatsWalk(ParseZip(archive))
       ELSE /\ stats_call' = StatsOf(converter.pages)
            /\ UNCHANGED <<converter, handed, zip_log>>
    /\ UNCHANGED <<archive, pages, window_args, exporter, windows_call, dataset>>
    /\ UNCHANGED <<convert_args, convert_call>>
    /\ UNCHANGED image_path_call
    /\ UNCHANGED <<varsClassifier, varsCoords, varsParse, varsCli>>

\* dataset = exporter.export(self.pages); return dataset
ConvertExport(result, opened) ==
    /\ convert_call' = [called |-> TRUE,
                        outcome |-> IF result.raised THEN "Exception" ELSE "Dataset",
                        error |-> "none"]
    /\ zip_log' = Append(opened, "exporter")
    /\ exporter' = result.st
    /\ dataset' = DatasetOf(result)

\* convert() after self.pages is set: the mode check, the exporter's constructor
\* and its export(); opened is the log of archive openings so far
ConvertPages(pgs, opened, made) ==
    IF convert_args.export_mode \notin DOMAIN EXPORT_MODES
    THEN /\ convert_call' = [called |-> TRUE, outcome |-> "ValueError",
                             error |-> "Invalid export mode"]
         /\ zip_log' = opened
         /\ UNCHANGED <<exporter, dataset>>
    ELSE IF made.state = "ValueError"
    THEN /\ convert_call' = [called |-> TRUE, outcome |-> "ValueError",
                             error |-> "Overlap must be less than window size"]
         /\ zip_log' = opened
         /\ UNCHANGED <<exporter, dataset>>
    ELSE ConvertExport(Export(made, archive, pgs), opened)

\* convert() with walk what parse() made of the archive, or the pages parsed before
ConvertWalk(walk, opened) ==
    /\ converter' = [pages_none |-> FALSE, pages |-> walk.pages]
    /\ handed' = handed \o walk.handed
    /\ ConvertPages(walk.pages, opened,
                    NewExporter(convert_args.export_mode, convert_args.window_size,
                                convert_args.overlap))

\* converter.convert(export_mode, window_size, overlap): parse() when nothing is
\* parsed yet, then the mode check, the exporter's constructor and its export()
Convert ==
    /\ ~convert_call.called
    /\ IF converter.pages_none
       THEN ConvertWalk(ParseZip(archive), Append(zip_log, "parser"))
       ELSE ConvertWalk([pages |-> converter.pages, handed |-> <<>>], zip_log)
    /\ UNCHANGED <<archive, pages, window_args, windows_call>>
    /\ UNCHANGED convert_args
    /\ UNCHANGED <<varsClassifier, varsCoords, varsParse, varsCalls, varsCli>>

(***************************************************************************)
(* cli.py: main.                                                           *)
(***************************************************************************)
\* main(): the checks of the window parameters, made for --mode window only
CliWindowRejected(args) ==
    /\ args.mode = "window"
    /\ \/ args.window_size < 1
       \/ args.overlap < 0
       \/ args.overlap >= args.window_size

\* main(): the stage at which the argument checks end the run with sys.exit(1),
\* "none" when they all pass
CliRejectedAt(args) ==
    IF ~args.zip_exists THEN "zip_path"
    ELSE IF ~args.stats_only /\ ~args.local_only /\ ~args.repo_id THEN "repo_id"
    ELSE IF CliWindowRejected(args) THEN "window"
    ELSE "none"

\* The command lines: --mode, --window-size, --overlap, --stats-only,
\* --local-only, whether --repo-id is given and whether zip_path exists
CliArgs ==
    {[NoCli EXCEPT !.zip_exists = flags[1], !.repo_id = flags[2],
                   !.stats_only = flags[3], !.local_only = flags[4],
                   !.mode = mode, !.window_size = window_size, !.overlap = overlap] :
         flags \in [1..4 -> BOOLEAN], mode \in DOMAIN EXPORT_MODES,
         window_size \in WindowParams, overlap \in WindowParams}

\* A command line and the archive it names; convert_args is what main() hands
\* to convert()
InitCli ==
    /\ cli \in CliArgs
    /\ archive = <<ImageEntry(<<"project", "/", "img", ".", "jpg">>, TRUE, 100, 100),
                   XmlEntry(<<"project", "/", "page", "/", "a", ".", "xml">>, TRUE,
                            SampleDoc(<<"img", ".", "jpg">>), <<>>,
                            [encoding |-> "", confidence |-> 0])>>
    /\ convert_args = [export_mode |-> cli.mode, window_size |-> cli.window_size,
                       overlap |-> cli.overlap]
    /\ converter = NewConverter
    /\ convert_call = NoConvertCall
    /\ handed = <<>>
    /\ zip_log = <<>>
    /\ pages = <<>>
    /\ window_args = [window_size |-> 2, overlap |-> 0]
    /\ exporter = NoExporter
    /\ windows_call = NoWindowsCall
    /\ dataset = NoDataset

\* main() from the construction of the converter on: get_stats() for
\* --stats-only, else convert() and save_to_disk / upload_to_hub, which succeeds
\* or raises (stored); any exception ends in sys.exit(1)
MainRun(stored) ==
    IF cli.stats_only
    THEN /\ GetStatsWalk(ParseZip(archive))
         /\ cli' = [cli EXCEPT !.called = TRUE, !.stage = "stats",
                               !.converter_made = TRUE]
         /\ UNCHANGED <<convert_call, exporter, dataset>>
    ELSE /\ ConvertWalk(ParseZip(archive), Append(zip_log, "parser"))
         /\ cli' = [cli EXCEPT !.called = TRUE, !.stage = "convert",
                               !.converter_made = TRUE,
                               !.exit_code = IF convert_call'.outcome = "Dataset" /\ stored
                                             THEN 0 ELSE 1]
         /\ UNCHANGED stats_call

\* main()
Main ==
    /\ ~cli.called
    /\ IF CliRejectedAt(cli) # "none"
       THEN /\ cli' = [cli EXCEPT !.called = TRUE, !.exit_code = 1,
                                  !.stage = CliRejectedAt(cli)]
            /\ UNCHANGED <<converter, handed, zip_log, convert_call, exporter,
                           dataset, stats_call>>
       ELSE \E stored \in BOOLEAN : MainRun(stored)
    /\ UNCHANGED <<archive, pages, window_args, windows_call>>
    /\ UNCHANGED convert_args
    /\ UNCHANGED image_path_call
    /\ UNCHANGED <<varsClassifier, varsCoords, varsParse>>

(***************************************************************************)
(* The archive entry classifier and the point-list parser, as stated.      *)
(***************************************************************************)
\* The classifier as the specification states it: the path contains __MACOSX, or
\* its final segment begins with "._", or it has a dot-prefixed segment and does
\* not end in ".xml".
StatedContainerNoise(p) ==
    LET segments == SplitOn(p, "/")
    IN \/ StrIn(Str(<<"__MACOSX">>), p)
       \/ StartsWith(segments[Len(segments)], <<".", "_">>)
       \/ /\ \E i \in 1..Len(segments) : StartsWith(segments[i], <<".">>)
          /\ ~EndsWith(p, Str(<<".", "xml">>))

\* C2: the classifier returns true exactly for the paths that contain __MACOSX,
\* whose final segment begins with "._", or that have a dot-prefixed segment and
\* do not end in ".xml".
C2_ClassifierAsStated ==
    classifier.called => (classifier.result <=> StatedContainerNoise(Str(file_path)))

\* C2 on the test's own path "project/._page.xml", which must be classified as noise.
C2_TestPathIsNoise ==
    (classifier.called /\ file_path = <<"project", "/", ".", "_", "page", ".", "xml">>)
        => classifier.result

\* A token that is exactly two integers separated by one comma
WellFormedPoint(tok) ==
    LET parts == SplitOn(tok, ",")
    IN Len(parts) = 2 /\ IsIntLiteral(parts[1]) /\ IsIntLiteral(parts[2])

RECURSIVE StatedPoints(_)
StatedPoints(tokens) ==
    IF tokens = <<>> THEN <<>>
    ELSE LET parts == SplitOn(Head(tokens), ",")
         IN (IF WellFormedPoint(Head(tokens))
             THEN <<(<<IntOf(parts[1]), IntOf(parts[2])>>)>>
             ELSE <<>>) \o StatedPoints(Tail(tokens))

\* C3: _parse_coords never raises; it returns one point per well-formed token, in
\* token order, and drops every other token; a missing element or an empty
\* attribute gives the empty sequence.
C3_ParseCoordsNeverRaises ==
    coords_call.called =>
        /\ ~coords_call.raised
        /\ coords_call.coords =
               IF points_attr.present
               THEN StatedPoints(SplitWhitespace(points_attr.points))
               ELSE <<>>

(***************************************************************************)
(* Window construction and the validation of the window parameters.        *)
(***************************************************************************)
ValidWindowArgs(a) ==
    a.window_size >= 1 /\ 0 <= a.overlap /\ a.overlap < a.window_size

\* The windows of the given start indices, in ascending order of the index
WindowsAt(lines, window_size, step, starts) ==
    [k \in 1..Cardinality(starts) |->
        LET i == (k - 1) * step
        IN SubSeq(lines, i + 1, Min({i + window_size, Len(lines)}))]

LinesOf(window) == {window[k] : k \in 1..Len(window)}

\* C27: for valid parameters _create_windows returns, every line of the region is
\* in some window, no window is empty, none has more than windowSize lines, all
\* but possibly the last have exactly windowSize lines, and two consecutive
\* windows share exactly overlap lines, fewer only when the later one is a final
\* window shorter than windowSize.
C27_WindowsCoverRegion ==
    (windows_call.called /\ ValidWindowArgs(window_args))
        => LET windows == windows_call.windows
               count == Len(windows)
           IN /\ ~windows_call.raised
              /\ LinesOf(windows_call.lines) = UNION {LinesOf(windows[w]) : w \in 1..count}
              /\ \A w \in 1..count :
                    /\ Len(windows[w]) >= 1
                    /\ Len(windows[w]) <= window_args.window_size
                    /\ w < count => Len(windows[w]) = window_args.window_size
              /\ \A w \in 1..(count - 1) :
                    LET shared == Cardinality(LinesOf(windows[w]) \cap LinesOf(windows[w + 1]))
                    IN \/ shared = window_args.overlap
                       \/ /\ shared < window_args.overlap
                          /\ w + 1 = count
                          /\ Len(windows[count]) < window_args.window_size

\* C27 witness: windowSize=3, overlap=1 over 4 lines gives [0-2] and the short
\* final window [2-3], which share one line
C27_Witness ==
    /\ windows_call.called
    /\ window_args = [window_size |-> 3, overlap |-> 1]
    /\ Len(windows_call.lines) = 4
    /\ Len(windows_call.windows) = 2
    /\ Len(windows_call.windows[2]) = 2
    /\ LinesOf(windows_call.windows[1]) \cap LinesOf(windows_call.windows[2])
           = {windows_call.lines[3]}

\* C4: with overlap >= windowSize the constructor raises: there is no exporter
\* instance, it never opens the archive, and no line is processed or record emitted.
C4_OverlapNotBelowSizeRaises ==
    (window_args.overlap >= window_args.window_size)
        => /\ exporter.state \in {"none", "ValueError"}
           /\ zip_log = <<>>
           /\ ~windows_call.called
           /\ dataset = NoDataset

\* windowSize=2, overlap=2 has been refused
C4_Witness ==
    /\ window_args = [window_size |-> 2, overlap |-> 2]
    /\ exporter.state = "ValueError"

\* C5: a constructor call with windowSize < 1 or overlap < 0 raises.
C5_NonPositiveSizeOrNegativeOverlapRaises ==
    (exporter.state # "none" /\ (window_args.window_size < 1 \/ window_args.overlap < 0))
        => exporter.state = "ValueError"

(***************************************************************************)
(* Reading order of the regions and lines of a parsed page.                *)
(***************************************************************************)
\* The position, in a stable sort by key, of the element at position j
StableRank(keys, j) ==
    1 + Cardinality({i \in 1..Len(keys) :
                        keys[i] < keys[j] \/ (keys[i] = keys[j] /\ i < j)})

\* The index the reading-order table lists for the j-th TextRegion element of the
\* document (the last entry for its id), 0 when its id is not listed
ListedIndex(doc, j) ==
    LET refs == doc.reading_order.refs
        id == Str(Get(doc.regions[j].id, <<>>))
        listed == {i \in 1..Len(refs) : Str(Get(refs[i].regionRef, <<>>)) = id}
    IN IF listed = {} THEN 0 ELSE IntAttr(refs[Max(listed)].index)

\* C8: the regions of a parsed page are in non-decreasing order of the index the
\* reading-order table lists for their id (0 when not listed), and regions of
\* equal index keep their document order.
C8_RegionsInReadingOrder ==
    (parsed.called /\ parsed.outcome = "PageData")
        => LET doc == xml_doc.xml_content
               regions == parsed.page.regions
               keys == [j \in 1..Len(doc.regions) |-> ListedIndex(doc, j)]
           IN /\ Len(regions) = Len(doc.regions)
              /\ \A k \in 1..(Len(regions) - 1) :
                     regions[k].reading_order <= regions[k + 1].reading_order
              /\ \A j \in 1..Len(doc.regions) :
                     LET region == regions[StableRank(keys, j)]
                     IN /\ region.id = Get(doc.regions[j].id, <<>>)
                        /\ region.full_text = doc.regions[j].text_equiv.text
                        /\ region.reading_order = keys[j]

\* Table {region_1: 0, region_2: 1}; the document has region_2, then region_1 and
\* then a second region_1: the page has the two region_1 first, in document order
C8_Witness ==
    /\ parsed.called
    /\ parsed.outcome = "PageData"
    /\ xml_doc.xml_content.reading_order.refs =
           << [regionRef |-> Attr(<<"region", "_", "1">>), index |-> Attr(<<"0">>)],
              [regionRef |-> Attr(<<"region", "_", "2">>), index |-> Attr(<<"1">>)] >>
    /\ [j \in 1..Len(xml_doc.xml_content.regions) |-> xml_doc.xml_content.regions[j].id.value]
           = << <<"region", "_", "2">>, <<"region", "_", "1">>, <<"region", "_", "1">> >>
    /\ [k \in 1..Len(parsed.page.regions) |-> parsed.page.regions[k].full_text]
           = << <<"T", "2">>, <<"T", "3">>, <<"T", "1">> >>

\* The index that the pattern  readingOrder { index : <digits>  gives for each of
\* the custom attributes of CustomSamples
StatedLineIndex(custom) ==
    CASE custom = Attr(Custom(<<"0">>)) -> 0
      [] custom = Attr(Custom(<<"1">>)) -> 1
      [] custom = Attr(Custom(<<"1", "2">>)) -> 12
      [] custom = Attr(<<"structure", " ", "{", "type", ":", "heading", ";", "}", " ",
                         "readingOrder", "{", " ", "index", " ", ":", " ", "2", ";", "}">>) -> 2
      [] OTHER -> 0

\* C9: the lines of every region of a parsed page are in non-decreasing order of
\* the index in their custom attribute (0 when it is absent or does not match),
\* lines of equal index keep their document order, and the reading-order table
\* has no part in it.
C9_LinesInReadingOrder ==
    (parsed.called /\ parsed.outcome = "PageData")
        => LET doc == xml_doc.xml_content
               region_keys == [j \in 1..Len(doc.regions) |-> ListedIndex(doc, j)]
           IN \A j \in 1..Len(doc.regions) :
                  LET elems == doc.regions[j].lines
                      lines == parsed.page.regions[StableRank(region_keys, j)].text_lines
                      keys == [k \in 1..Len(elems) |-> StatedLineIndex(elems[k].custom)]
                  IN /\ Len(lines) = Len(elems)
                     /\ \A k \in 1..(Len(lines) - 1) :
                            lines[k].reading_order <= lines[k + 1].reading_order
                     /\ \A k \in 1..Len(elems) :
                            LET line == lines[StableRank(keys, k)]
                            IN /\ line.id = Get(elems[k].id, <<>>)
                               /\ line.reading_order = keys[k]

\* A line with custom="readingOrder {index:1;}" followed by one with
\* custom="readingOrder {index:0;}", under a table that lists line_1: the second
\* line comes out first
C9_Witness ==
    /\ parsed.called
    /\ parsed.outcome = "PageData"
    /\ xml_doc.xml_content.reading_order.refs = LineRefs
    /\ Len(xml_doc.xml_content.regions) = 1
    /\ [k \in 1..Len(xml_doc.xml_content.regions[1].lines) |->
            xml_doc.xml_content.regions[1].lines[k].custom]
           = << Attr(Custom(<<"1">>)), Attr(Custom(<<"0">>)) >>
    /\ [k \in 1..Len(parsed.page.regions[1].text_lines) |->
            parsed.page.regions[1].text_lines[k].id]
           = << <<"line", "_", "2">>, <<"line", "_", "1">> >>

(***************************************************************************)
(* The converter facade: configuration errors, the mode registry and the   *)
(* raw_xml round trip.                                                     *)
(***************************************************************************)
\* The window parameters the specification calls invalid
InvalidWindowParams(args) ==
    args.overlap >= args.window_size \/ args.window_size < 1

\* C6: a window-mode convert() with invalid window parameters (overlap >= window
\* size, or a non-positive window size) ends in the configuration error before any
\* processing: the call does not open the archive and hands no document to the
\* parser.
C6_ConfigErrorBeforeProcessing ==
    [][(/\ ~convert_call.called
        /\ convert_call'.called
        /\ convert_args.export_mode = "window"
        /\ InvalidWindowParams(convert_args))
           => (/\ convert_call'.outcome = "ValueError"
               /\ zip_log' = zip_log
               /\ handed' = handed)]_vars

\* C7: the registry EXPORT_MODES holds the modes polygon_region and polygon_line,
\* and convert() accepts these two names.
C7_PolygonModesRegistered ==
    /\ {"polygon_region", "polygon_line"} \subseteq DOMAIN EXPORT_MODES
    /\ (convert_call.called
          /\ convert_args.export_mode \in {"polygon_region", "polygon_line"})
           => convert_call.error # "Invalid export mode"

\* C10: every record of a raw_xml dataset belongs to a page of the converter: its
\* filename and project are the page's, and its xml is, unchanged, the decoded text
\* that was handed to _parse_page_xml for that page under that project.
C10_RawXmlRoundTrip ==
    (convert_call.called /\ convert_args.export_mode = "raw_xml" /\ dataset.returned)
        => \A k \in 1..Len(dataset.records) :
              \E p \in 1..Len(converter.pages) : \E h \in 1..Len(handed) :
                 /\ dataset.records[k].filename = converter.pages[p].image_filename
                 /\ dataset.records[k].project = converter.pages[p].project_name
                 /\ handed[h].project_name = converter.pages[p].project_name
                 /\ Get(handed[h].xml_content.page.imageFilename, <<>>)
                        = converter.pages[p].image_filename
                 /\ dataset.records[k].xml = handed[h].xml_content

\* C10 witness: a raw_xml dataset with the record of a document whose bytes are
\* not UTF-8 and were decoded with the detector's encoding.
C10_Witness ==
    /\ convert_call.called
    /\ convert_args.export_mode = "raw_xml"
    /\ dataset.returned
    /\ Len(dataset.records) >= 1
    /\ dataset.records[1].xml.chars = <<1097>>
    /\ dataset.records[1].project = Str(<<"project">>)

(***************************************************************************)
(* The exporters: crops, texts, image location and tallies.                *)
(***************************************************************************)
\* The image an exporter loads for a page: [ok, width, height]
PageImage(page) ==
    IF FindImagePath(archive, page).found
    THEN OpenImage(archive, FindImagePath(archive, page).path)
    ELSE NoImage

\* A polygon with no point-to-point extent left inside a width x height image
EntirelyOutside(coords, width, height) ==
    /\ coords # <<>>
    /\ \/ \A i \in 1..Len(coords) : coords[i][1] >= width
       \/ \A i \in 1..Len(coords) : coords[i][1] <= 0
       \/ \A i \in 1..Len(coords) : coords[i][2] >= height
       \/ \A i \in 1..Len(coords) : coords[i][2] <= 0

\* The records of the dataset that carry region_id id
RecordsOfRegion(id) ==
    {k \in 1..Len(dataset.records) : dataset.records[k].region_id = id}

\* C11: a region whose polygon lies entirely outside the image yields no record
\* carrying its id in region, line and window mode, while its non-empty text is
\* part of the page's text-mode record.
C11_OutsideRegionYieldsNoCropRecords ==
    dataset.returned =>
        \A p \in 1..Len(pages) : \A r \in 1..Len(pages[p].regions) :
            (/\ PageImage(pages[p]).ok
             /\ EntirelyOutside(pages[p].regions[r].coords,
                                PageImage(pages[p]).width, PageImage(pages[p]).height))
            => /\ exporter.kind \in {"region", "line", "window"}
                      => RecordsOfRegion(pages[p].regions[r].id) = {}
               /\ (exporter.kind = "text" /\ pages[p].regions[r].full_text # <<>>)
                      => \E k \in 1..Len(dataset.records) :
                            StrIn(pages[p].regions[r].full_text, dataset.records[k].text)

\* The crop-free and crop-based treatment the specification gives a region
\* without a polygon
EmptyRegionAsStated(region) ==
    /\ (exporter.kind = "text" /\ region.full_text # <<>>)
          => \E k \in 1..Len(dataset.records) :
                StrIn(region.full_text, dataset.records[k].text)
    /\ exporter.kind = "region" => RecordsOfRegion(region.id) = {}

\* The treatment the specification gives a line without a polygon
EmptyLineAsStated(line) ==
    /\ exporter.kind = "line"
          => \A k \in 1..Len(dataset.records) : dataset.records[k].line_id # line.id
    /\ exporter.kind = "window"
          => \A k \in 1..Len(dataset.records) :
                /\ ~StrIn(line.id, dataset.records[k].line_ids)
                /\ ~StrIn(line.text, dataset.records[k].text)

\* C19: a region without a polygon gives its text to the text-mode record and
\* no region-mode record; a line without a polygon gives no line-mode record and
\* neither its id nor its text to any window-mode record.
C19_EmptyGeometrySkippedByCrops ==
    dataset.returned =>
        \A p \in 1..Len(pages) : \A r \in 1..Len(pages[p].regions) :
            PageImage(pages[p]).ok =>
                /\ pages[p].regions[r].coords = <<>>
                      => EmptyRegionAsStated(pages[p].regions[r])
                /\ \A l \in 1..Len(pages[p].regions[r].text_lines) :
                      pages[p].regions[r].text_lines[l].coords = <<>>
                          => EmptyLineAsStated(pages[p].regions[r].text_lines[l])

(***************************************************************************)
(* Locating a page's image.                                                *)
(***************************************************************************)
\* The names of the archive's entries
EntryNames == {Str(archive[i].name) : i \in 1..Len(archive)}

\* The image path the specification gives page: the first of the three exact
\* candidates that is an entry, else the first entry whose name ends with the
\* file name, else none
StatedImagePath(page) ==
    LET filename == Str(page.image_filename)
        in_project == Str(page.project_name) \o <<"/">> \o filename
        in_images == Str(page.project_name) \o Str(<<"/", "images", "/">>) \o filename
        ending == {i \in 1..Len(archive) : EndsWith(Str(archive[i].name), filename)}
    IN IF in_project \in EntryNames THEN [found |-> TRUE, path |-> in_project]
       ELSE IF in_images \in EntryNames THEN [found |-> TRUE, path |-> in_images]
       ELSE IF filename \in EntryNames THEN [found |-> TRUE, path |-> filename]
       ELSE IF ending # {}
       THEN [found |-> TRUE,
             path |-> Str(archive[CHOOSE i \in ending : \A j \in ending : i <= j].name)]
       ELSE [found |-> FALSE, path |-> <<>>]

\* The records export() gives for page p when it is the only page
RecordsAlone(p) == Export(exporter, archive, <<pages[p]>>).records

\* The records of the dataset that are of page p
RecordsOfPage(p) ==
    {k \in 1..Len(dataset.records) : dataset.records[k].filename = pages[p].image_filename}

\* C15: _find_image_path returns {project}/{filename}, else
\* {project}/images/{filename}, else {filename}, else the first entry whose path
\* ends with {filename}; a page for which none is an entry yields no record, and
\* the other pages yield the records they yield on their own.
C15_ImagePathPriority ==
    /\ image_path_call.called =>
          /\ image_path_call.found = StatedImagePath(pages[image_path_call.page]).found
          /\ image_path_call.path = StatedImagePath(pages[image_path_call.page]).path
    /\ dataset.returned =>
          /\ \A p \in 1..Len(pages) :
                ~StatedImagePath(pages[p]).found => RecordsOfPage(p) = {}
          /\ dataset.records = Concat([p \in 1..Len(pages) |-> RecordsAlone(p)])

\* C15 witness: project/img.jpg is no entry, project/images/img.jpg and img.jpg
\* are, and the call returns project/images/img.jpg.
C15_Witness ==
    /\ image_path_call.called
    /\ Str(<<"project", "/", "img", ".", "jpg">>) \notin EntryNames
    /\ Str(<<"img", ".", "jpg">>) \in EntryNames
    /\ image_path_call.path = Str(<<"project", "/", "images", "/", "img", ".", "jpg">>)

(***************************************************************************)
(* The text of a text-mode record.                                         *)
(***************************************************************************)
\* The text the specification gives the first n regions: each non-empty text
\* of a region, in order, a newline between one and the next
RECURSIVE StatedText(_, _)
StatedText(regions, n) ==
    IF n = 0 THEN <<>>
    ELSE IF regions[n].full_text = <<>> THEN StatedText(regions, n - 1)
    ELSE IF StatedText(regions, n - 1) = <<>> THEN regions[n].full_text
    ELSE StatedText(regions, n - 1) \o <<"\n">> \o regions[n].full_text

\* The pages whose image is found and decodes
LoadablePages == {p \in 1..Len(pages) : PageImage(pages[p]).ok}

\* C20: a text-mode dataset has exactly one record for each page whose image
\* loads; its text is the non-empty texts of the page's regions in page order,
\* joined by a newline, with nothing of the lines' texts, and it is the empty
\* text when no region has a text.
C20_TextRecordPerPage ==
    (dataset.returned /\ exporter.kind = "text") =>
        /\ Len(dataset.records) = Cardinality(LoadablePages)
        /\ \A p \in LoadablePages :
              /\ Cardinality(RecordsOfPage(p)) = 1
              /\ \A k \in RecordsOfPage(p) :
                    dataset.records[k].text
                        = StatedText(pages[p].regions, Len(pages[p].regions))

\* C20 witness: a page of three regions, the second without text, gives one
\* record whose text is the first and the third text with one newline between.
C20_Witness ==
    /\ dataset.returned
    /\ exporter.kind = "text"
    /\ Len(pages) = 1
    /\ Len(pages[1].regions) = 3
    /\ pages[1].regions[1].full_text = <<"A">>
    /\ pages[1].regions[2].full_text = <<>>
    /\ pages[1].regions[3].full_text = <<"B", "\n", "C">>
    /\ pages[1].regions[1].text_lines # <<>>
    /\ Len(dataset.records) = 1
    /\ dataset.records[1].text = <<"A", "\n", "B", "\n", "C">>

(***************************************************************************)
(* The rectangle of a crop.                                                *)
(***************************************************************************)
\* The rectangle the specification crops for a polygon in a width x height
\* image: the polygon's extent with its lower corner raised to 0 and its upper
\* corner lowered to the image's size
StatedBox(coords, width, height) ==
    LET xs == {coords[i][1] : i \in 1..Len(coords)}
        ys == {coords[i][2] : i \in 1..Len(coords)}
    IN << IF Min(xs) < 0 THEN 0 ELSE Min(xs),
          IF Min(ys) < 0 THEN 0 ELSE Min(ys),
          IF Max(xs) > width THEN width ELSE Max(xs),
          IF Max(ys) > height THEN height ELSE Max(ys) >>

\* A rectangle with positive extent within a width x height image
ProperBox(box, width, height) ==
    /\ 0 <= box[1] /\ box[1] < box[3] /\ box[3] <= width
    /\ 0 <= box[2] /\ box[2] < box[4] /\ box[4] <= height

\* The region-mode records of region r of page p
RegionRecordsOf(p, r) ==
    {k \in RecordsOfPage(p) : dataset.records[k].region_id = pages[p].regions[r].id}

\* C23: _crop_region crops the rectangle (max(0,minX), max(0,minY), min(W,maxX),
\* min(H,maxY)) and gives no crop exactly when the polygon is empty or that
\* rectangle has no extent on an axis; a cropped rectangle lies within the image
\* and has positive width and height.  Seen through region mode, where a region
\* has a record exactly when its crop exists and the record holds the crop.
C23_CropRectangle ==
    (dataset.returned /\ exporter.kind = "region") =>
        \A p \in LoadablePages : \A r \in 1..Len(pages[p].regions) :
            LET coords == pages[p].regions[r].coords
                image == PageImage(pages[p])
            IN IF coords = <<>> THEN RegionRecordsOf(p, r) = {}
               ELSE IF \/ StatedBox(coords, image.width, image.height)[1]
                             >= StatedBox(coords, image.width, image.height)[3]
                       \/ StatedBox(coords, image.width, image.height)[2]
                             >= StatedBox(coords, image.width, image.height)[4]
               THEN RegionRecordsOf(p, r) = {}
               ELSE /\ Cardinality(RegionRecordsOf(p, r)) = 1
                    /\ \A k \in RegionRecordsOf(p, r) :
                          /\ dataset.records[k].image
                                 = StatedBox(coords, image.width, image.height)
                          /\ ProperBox(dataset.records[k].image,
                                       image.width, image.height)

\* C23 witness: the polygon 5,3 100,3 100,50 5,50 in a 100 x 100 image is
\* cropped to (5, 3, 100, 50).
C23_Witness ==
    /\ dataset.returned
    /\ exporter.kind = "region"
    /\ \E p \in LoadablePages :
          /\ PageImage(pages[p]).width = 100
          /\ PageImage(pages[p]).height = 100
          /\ pages[p].regions[1].coords = InsideBox
          /\ \E k \in RegionRecordsOf(p, 1) : dataset.records[k].image = <<5, 3, 100, 50>>

(***************************************************************************)
(* The fields of a window-mode record.                                     *)
(***************************************************************************)
\* The window-mode records of region r of page p
WindowRecordsOf(p, r) ==
    {k \in 1..Len(dataset.records) :
        /\ dataset.records[k].filename = pages[p].image_filename
        /\ dataset.records[k].region_id = pages[p].regions[r].id}

\* record is the window of lines that starts at line index * step (from 0):
\* such a window was constructed, window_size counts its lines, and line_ids
\* and line_reading_orders list them in order
IsWindowOf(record, lines, window_size, overlap) ==
    LET step == window_size - overlap
        start == record.window_index * step
        last == IF start + window_size < Len(lines) THEN start + window_size
                ELSE Len(lines)
    IN /\ record.window_index >= 0
       /\ step > 0
       /\ start < Len(lines)
       /\ record.window_index = 0 \/ start + overlap < Len(lines)
       /\ record.window_size = last - start
       /\ record.window_size <= window_size
       /\ record.line_ids
              = Join(<<",", " ">>, [j \in 1..(last - start) |-> lines[start + j].id])
       /\ record.line_reading_orders
              = Join(<<",", " ">>,
                     [j \in 1..(last - start) |-> IntStr(lines[start + j].reading_order)])

\* C24: the window_index of a window-mode record counts, from 0 and for each
\* region on its own, the windows constructed for the record's region;
\* window_size is the number of lines of that window, at most the configured
\* size; line_ids and line_reading_orders list that window's lines in order; a
\* region without lines has no record.
C24_WindowRecordFields ==
    (dataset.returned /\ exporter.kind = "window") =>
        \A p \in 1..Len(pages) : \A r \in 1..Len(pages[p].regions) :
            /\ pages[p].regions[r].text_lines = <<>> => WindowRecordsOf(p, r) = {}
            /\ \A k \in WindowRecordsOf(p, r) :
                  /\ IsWindowOf(dataset.records[k], pages[p].regions[r].text_lines,
                                exporter.window_size, exporter.overlap)
                  /\ \A j \in WindowRecordsOf(p, r) :
                        j < k => dataset.records[j].window_index
                                     < dataset.records[k].window_index

(***************************************************************************)
(* The summary of an export.                                               *)
(***************************************************************************)
\* The paths of the images that were found and did not decode, in page order
RECURSIVE FailuresFrom(_)
FailuresFrom(p) ==
    IF p > Len(pages) THEN <<>>
    ELSE (IF FindImagePath(archive, pages[p]).found /\ ~PageImage(pages[p]).ok
          THEN <<FindImagePath(archive, pages[p]).path>> ELSE <<>>)
         \o FailuresFrom(p + 1)

\* C26: the summary of an export lists at most 5 failed images, the first ones
\* in the order they failed, and when more than 5 failed it gives the rest as
\* the count (failures - 5) only.
C26_SummaryIsBounded ==
    dataset.summary.printed =>
        /\ Len(dataset.summary.failed) <= 5
        /\ \A k \in 1..Len(dataset.summary.failed) :
              dataset.summary.failed[k] = FailuresFrom(1)[k]
        /\ IF Len(FailuresFrom(1)) > 5
           THEN /\ Len(dataset.summary.failed) = 5
                /\ dataset.summary.more = Len(FailuresFrom(1)) - 5
           ELSE /\ Len(dataset.summary.failed) = Len(FailuresFrom(1))
                /\ dataset.summary.more = 0

\* C26 witness: seven images failed, five are listed and two are counted.
C26_Witness ==
    /\ dataset.summary.printed
    /\ Len(exporter.failed_images) = 7
    /\ Len(dataset.summary.failed) = 5
    /\ dataset.summary.failed[5] = Str(<<"project", "/", "5", ".", "jpg">>)
    /\ dataset.summary.more = 2

(***************************************************************************)
(* The count of processed records.                                         *)
(***************************************************************************)
\* C28: after any sequence of export calls on one exporter, processed_count is
\* the number of records its generators yielded, skipped units not counted; after
\* one export call on a fresh exporter it is the length of the returned dataset.
C28_ProcessedCountIsRecordsEmitted ==
    dataset.calls >= 1 =>
        /\ exporter.processed_count = dataset.emitted
        /\ (dataset.calls = 1 /\ dataset.returned)
               => exporter.processed_count = Len(dataset.records)

\* C28 witness: a third export on an exporter that skipped an image every time
\* and yielded records every time
C28_Witness ==
    /\ dataset.calls = 3
    /\ dataset.returned
    /\ Len(dataset.records) >= 1
    /\ exporter.skipped_count >= 3
    /\ exporter.processed_count = 3 * Len(dataset.records)

(***************************************************************************)
(* The skip tally of an export.                                            *)
(***************************************************************************)
RECURSIVE SumOf(_)
SumOf(numbers) == IF numbers = <<>> THEN 0 ELSE Head(numbers) + SumOf(Tail(numbers))

\* The units export() attempts for page: the page itself when its image is
\* missing or does not decode and in the page-level modes, else its regions,
\* its lines or its windows
UnitsAttempted(page) ==
    LET image_path == FindImagePath(archive, page)
        regions == page.regions
    IN IF ~image_path.found THEN 1
       ELSE IF ~OpenImage(archive, image_path.path).ok THEN 1
       ELSE CASE exporter.kind \in {"raw_xml", "text"} -> 1
              [] exporter.kind = "region" -> Len(regions)
              [] exporter.kind = "line" ->
                     SumOf([r \in 1..Len(regions) |-> Len(regions[r].text_lines)])
              [] exporter.kind = "window" ->
                     SumOf([r \in 1..Len(regions) |->
                               Len(CreateWindows(regions[r].text_lines,
                                                 exporter.window_size,
                                                 exporter.overlap).windows)])

\* C16: after export() the records emitted and the units skipped add up to the
\* units attempted: a page whose image is missing or does not decode and a
\* region, line or window whose crop is empty are each counted as skipped.
C16_TallyAccountsForEveryUnit ==
    dataset.returned =>
        exporter.processed_count + exporter.skipped_count
            = SumOf([p \in 1..Len(pages) |-> UnitsAttempted(pages[p])])

(***************************************************************************)
(* The archive walk: failure isolation and output order.                   *)
(***************************************************************************)
\* The project of an archive entry: the part of its name before the first "/"
EntryProject(i) == Head(SplitOn(Str(archive[i].name), "/"))

\* The entries of the archive the walk selects as documents
SelectedEntries ==
    {i \in 1..Len(archive) :
        /\ StrIn(<<"/">>, Str(archive[i].name))
        /\ StrIn(Str(<<"/", "page", "/">>), Str(archive[i].name))
        /\ EndsWith(Str(archive[i].name), Str(<<".", "xml">>))
        /\ ~IsMacosMetadataFile(Str(archive[i].name))}

\* What reading and parsing entry i on its own gives
EntryPage(i) == ParsePageXml(ReadData(archive[i].data).text, EntryProject(i))

\* The selected entries that decode and parse to a PageData
GoodEntries ==
    {i \in SelectedEntries :
        ReadData(archive[i].data).ok /\ EntryPage(i).outcome = "PageData"}

\* C12: a selected document that cannot be read, is malformed, has no Page root
\* or raises while it is parsed contributes no PageData and does not end the
\* walk: every selected document that can be read is handed to the parser, and
\* the result holds exactly the pages of those that parse.
C12_FailuresAreIsolated ==
    ~converter.pages_none =>
        /\ Len(converter.pages) = Cardinality(GoodEntries)
        /\ \A i \in GoodEntries :
              \E p \in 1..Len(converter.pages) : converter.pages[p] = EntryPage(i).page
        /\ \A i \in SelectedEntries :
              ReadData(archive[i].data).ok
                  => \E h \in 1..Len(handed) :
                        handed[h].xml_file = Str(archive[i].name)

\* C12 witness: the first document of project is malformed, the second one is
\* parsed and is the only page of the result.
C12_Witness ==
    /\ ~converter.pages_none
    /\ Cardinality(SelectedEntries) = 2
    /\ \E i \in SelectedEntries :
          /\ ~archive[i].data.markup.wellformed
          /\ \E j \in GoodEntries : j > i /\ EntryProject(j) = EntryProject(i)
    /\ Len(converter.pages) = 1
    /\ Len(handed) = 2

\* The first entry of the archive that is of the project of entry i
FirstOfProject(i) ==
    CHOOSE j \in 1..Len(archive) :
        /\ StrIn(<<"/">>, Str(archive[j].name))
        /\ EntryProject(j) = EntryProject(i)
        /\ \A k \in 1..(j - 1) :
              ~(StrIn(<<"/">>, Str(archive[k].name)) /\ EntryProject(k) = EntryProject(i))

\* Entry i comes before entry j in the stated order: its project appears first,
\* or both are of one project and i is earlier in the archive
WalkedBefore(i, j) ==
    \/ FirstOfProject(i) < FirstOfProject(j)
    \/ FirstOfProject(i) = FirstOfProject(j) /\ i < j

\* The k-th entry of good in the stated order
NthEntry(good, k) ==
    CHOOSE i \in good : Cardinality({j \in good : WalkedBefore(j, i)}) = k - 1

\* walked holds the pages of the entries good in the stated order, each with
\* the project of its entry
InWalkOrder(walked, good) ==
    /\ Len(walked) = Cardinality(good)
    /\ \A k \in 1..Len(walked) :
          /\ walked[k] = EntryPage(NthEntry(good, k)).page
          /\ walked[k].project_name = EntryProject(NthEntry(good, k))

\* C14: the walk returns the parsed pages ordered by project, projects in the
\* order of their first entry in the archive, documents of one project in
\* archive order; each selected entry gives at most one page, whose project_name
\* is the top-level segment of the entry's path.
C14_WalkOrder == ~converter.pages_none => InWalkOrder(converter.pages, GoodEntries)

\* C14 witness: three documents parse, the second of another project than the
\* first and the third; the third document's page comes before the second's.
C14_Witness ==
    /\ ~converter.pages_none
    /\ Len(converter.pages) = 3
    /\ GoodEntries = {2, 3, 4}
    /\ EntryProject(3) # EntryProject(2)
    /\ EntryProject(4) = EntryProject(2)
    /\ converter.pages[2] = EntryPage(4).page
    /\ converter.pages[3] = EntryPage(3).page
    /\ converter.pages[2] # converter.pages[3]

(***************************************************************************)
(* The cached collection of parsed pages.                                  *)
(***************************************************************************)
\* C17: whatever parse(), convert() and get_stats() calls are made on one
\* converter, the parser walks the archive at most once.
C17_ArchiveWalkedAtMostOnce == ParserWalks <= 1

(***************************************************************************)
(* The window parameters on the command line.                              *)
(***************************************************************************)
\* C18: main() ends with an error, before it constructs the converter and before
\* the archive is opened, for every --mode window command line with
\* window_size < 1, overlap < 0 or overlap >= window_size; and it refuses exactly
\* the pairs the constructor of WindowExporter refuses.
C18_CliRejectsAsConstructor ==
    (cli.called /\ cli.mode = "window" /\ cli.stage \notin {"zip_path", "repo_id"})
        => /\ (cli.window_size < 1 \/ cli.overlap < 0 \/ cli.overlap >= cli.window_size)
                 => /\ cli.stage = "window"
                    /\ cli.exit_code = 1
                    /\ ~cli.converter_made
                    /\ zip_log = <<>>
           /\ cli.stage = "window"
                 <=> WindowExporterInit(cli.window_size, cli.overlap).state = "ValueError"

(***************************************************************************)
(* The decoding of an entry's bytes.                                       *)
(***************************************************************************)
\* The decoding the specification gives bytes: strict UTF-8, else the encoding
\* the detector names with a confidence above 0.70 when it decodes them, else
\* latin-1, cp1252, iso-8859-1 in this order
StatedDecoding(bytes, detected) ==
    IF DecodeWith("utf-8", bytes).ok THEN DecodeWith("utf-8", bytes)
    ELSE IF /\ detected.confidence > 70
            /\ detected.encoding # ""
            /\ DecodeWith(detected.encoding, bytes).ok
    THEN DecodeWith(detected.encoding, bytes)
    ELSE IF DecodeWith("latin-1", bytes).ok THEN DecodeWith("latin-1", bytes)
    ELSE IF DecodeWith("cp1252", bytes).ok THEN DecodeWith("cp1252", bytes)
    ELSE DecodeWith("iso-8859-1", bytes)

\* The entries of the archive a document handed to the parser was read from
EntriesHanded(h) ==
    {i \in 1..Len(archive) : Str(archive[i].name) = handed[h].xml_file}

\* C21: the text handed to the parser for an entry is its bytes decoded as
\* strict UTF-8 when they are valid UTF-8, whatever the detector reports; else
\* by the detector's encoding when its confidence is above 0.70 (not at 0.70)
\* and it decodes them; else by latin-1, cp1252, iso-8859-1, the first that
\* succeeds.
C21_DecodingPreference ==
    \A h \in 1..Len(handed) : \A i \in EntriesHanded(h) :
        /\ StatedDecoding(archive[i].data.bytes, archive[i].data.detected).ok
        /\ handed[h].xml_content.chars
               = StatedDecoding(archive[i].data.bytes, archive[i].data.detected).chars

\* C21 witness: the byte 233 is no UTF-8, the detector names IBM866 with a
\* confidence of exactly 0.70, and the text handed on is the latin-1 reading.
C21_Witness ==
    \E h \in 1..Len(handed) : \E i \in EntriesHanded(h) :
        /\ archive[i].data.bytes = <<233>>
        /\ archive[i].data.detected = [encoding |-> "IBM866", confidence |-> 70]
        /\ handed[h].xml_content.chars = <<233>>

\* C29: every selected entry that can be read is decoded to a text and handed
\* to the parser, the fallback loop never goes beyond latin-1, and an entry is
\* left out for its reading only when the read itself fails.
C29_DecodingIsTotal ==
    ~converter.pages_none =>
        \A i \in SelectedEntries :
            /\ DecodeBytes(archive[i].data.bytes, archive[i].data.detected).ok
            /\ TriedEncodings(<<"latin-1", "cp1252", "iso-8859-1">>,
                              archive[i].data.bytes) = <<"latin-1">>
            /\ archive[i].data.readable
                  <=> \E h \in 1..Len(handed) : i \in EntriesHanded(h)

\* C29 witness: the byte 129, which cp1252 does not define and which is no
\* UTF-8, is read with no detector guess and handed on as its latin-1 reading.
C29_Witness ==
    \E h \in 1..Len(handed) : \E i \in EntriesHanded(h) :
        /\ archive[i].data.bytes = <<129>>
        /\ archive[i].data.detected.confidence = 0
        /\ handed[h].xml_content.chars = <<129>>

(***************************************************************************)
(* The entries the walk selects.                                           *)
(***************************************************************************)
\* The entries the specification selects: a path with a top-level segment and
\* a segment named page, ending in .xml, that the classifier does not flag
StatedSelection ==
    {i \in 1..Len(archive) :
        /\ StrIn(<<"/">>, Str(archive[i].name))
        /\ \E k \in 1..Len(SplitOn(Str(archive[i].name), "/")) :
              SplitOn(Str(archive[i].name), "/")[k] = Str(<<"page">>)
        /\ EndsWith(Str(archive[i].name), Str(<<".", "xml">>))
        /\ ~IsMacosMetadataFile(Str(archive[i].name))}

\* C22: the walk reads exactly the entries with a top-level segment, a segment
\* named page and the extension .xml that the classifier does not flag; page as
\* the top-level segment counts as a segment named page.
C22_SelectedEntries ==
    ~converter.pages_none =>
        /\ \A h \in 1..Len(handed) : EntriesHanded(h) \subseteq StatedSelection
        /\ \A i \in StatedSelection :
              ReadData(archive[i].data).ok
                  => \E h \in 1..Len(handed) : i \in EntriesHanded(h)

(***************************************************************************)
(* The texts of regions and lines.                                         *)
(***************************************************************************)
\* The text of an element's own TextEquiv/Unicode node, empty without one
OwnText(element) == IF element.text_equiv.present THEN element.text_equiv.text ELSE <<>>

\* line is built from an element of lines and has that element's own text
LineKeepsOwnText(line, lines) ==
    \E j \in 1..Len(lines) :
        /\ Get(lines[j].id, <<>>) = line.id
        /\ line.text = OwnText(lines[j])

\* region is built from an element of regions, has that element's own text, and
\* each of its lines has its own
RegionKeepsOwnText(region, regions) ==
    \E k \in 1..Len(regions) :
        /\ Get(regions[k].id, <<>>) = region.id
        /\ region.full_text = OwnText(regions[k])
        /\ Len(region.text_lines) = Len(regions[k].lines)
        /\ \A l \in 1..Len(region.text_lines) :
              LineKeepsOwnText(region.text_lines[l], regions[k].lines)

\* C25: the full_text of a parsed region is the text of the region's own
\* TextEquiv/Unicode node, empty when it has none, whatever its lines hold; the
\* text of a line is that of the line's own node, whatever the region holds.
C25_RegionTextIsItsOwn ==
    (parsed.called /\ parsed.outcome = "PageData") =>
        /\ Len(parsed.page.regions) = Len(xml_doc.xml_content.regions)
        /\ \A r \in 1..Len(parsed.page.regions) :
              RegionKeepsOwnText(parsed.page.regions[r], xml_doc.xml_content.regions)

\* C25 witness: a region without a node of its own and with a line that has a
\* text is parsed to an empty full_text and a line with that text.
C25_Witness ==
    /\ parsed.called
    /\ parsed.outcome = "PageData"
    /\ Len(xml_doc.xml_content.regions) = 1
    /\ ~xml_doc.xml_content.regions[1].text_equiv.present
    /\ Len(parsed.page.regions) = 1
    /\ parsed.page.regions[1].full_text = <<>>
    /\ Len(parsed.page.regions[1].text_lines) = 2
    /\ parsed.page.regions[1].text_lines[1].text = <<"t", "1">>

(***************************************************************************)
(* _parse_page_xml: defaults for numeric attributes.                       *)
(***************************************************************************)
\* The value the specification gives a numeric attribute: the integer it
\* spells, 0 when it is missing or spells none
PermissiveInt(attr) ==
    IF attr.present /\ IsIntLiteral(Str(attr.value)) THEN IntOf(Str(attr.value)) ELSE 0

\* C13: parsing a well-formed document with a Page root never raises and yields
\* a PageData; a missing or non-integer imageWidth / imageHeight, or a
\* non-integer index of the reading-order table, is replaced by 0.
C13_NumericAttributesDefault ==
    (parsed.called /\ xml_doc.xml_content.wellformed /\ xml_doc.xml_content.page.present)
        => /\ parsed.outcome = "PageData"
           /\ parsed.page.image_width = PermissiveInt(xml_doc.xml_content.page.imageWidth)
           /\ parsed.page.image_height = PermissiveInt(xml_doc.xml_content.page.imageHeight)

(***************************************************************************)
(* Specifications.                                                         *)
(***************************************************************************)
NextClassifier == Classify

InitSpecClassifier == InitClassifier /\ IdleCoords /\ IdleExporter /\ IdleParse /\ IdleConvert /\ IdleCalls /\ IdleCli

SpecClassifier == InitSpecClassifier /\ [][NextClassifier]_vars

NextCoords == CallParseCoords

InitSpecCoords == InitCoords /\ IdleClassifier /\ IdleExporter /\ IdleParse /\ IdleConvert /\ IdleCalls /\ IdleCli

SpecCoords == InitSpecCoords /\ [][NextCoords]_vars

NextWindow == NewWindowExporter \/ CallCreateWindows \/ CallExport

InitSpecWindow == InitWindow /\ IdleClassifier /\ IdleCoords /\ IdleParse /\ IdleConvert /\ IdleCalls /\ IdleCli

SpecWindow == InitSpecWindow /\ [][NextWindow]_vars

NextParse == CallParsePageXml

InitSpecParse == InitParse /\ IdleClassifier /\ IdleCoords /\ IdleExporter /\ IdleConvert /\ IdleCalls /\ IdleCli

SpecParse == InitSpecParse /\ [][NextParse]_vars

NextConvert == Parse \/ Convert \/ GetStats

InitSpecConvert == InitConvert /\ IdleClassifier /\ IdleCoords /\ IdleParse /\ IdleCalls /\ IdleCli

SpecConvert == InitSpecConvert /\ [][NextConvert]_vars

NextExport == CallFindImagePath \/ CallExport

InitSpecExport ==
    InitExport /\ IdleClassifier /\ IdleCoords /\ IdleParse /\ IdleConvert /\ IdleCli

SpecExport == InitSpecExport /\ [][NextExport]_vars

NextReexport == CallExport \/ CallExportAgain

InitSpecReexport ==
    InitExport /\ IdleClassifier /\ IdleCoords /\ IdleParse /\ IdleConvert /\ IdleCli

SpecReexport == InitSpecReexport /\ [][NextReexport]_vars

NextCli == Main

InitSpecCli == InitCli /\ IdleClassifier /\ IdleCoords /\ IdleParse /\ IdleCalls

SpecCli == InitSpecCli /\ [][NextCli]_vars

=============================================================================
